---- MODULE Spec2Model ----
(***************************************************************************)
(* Seat selection with undo/redo (Command pattern) of the cinema ticketing *)
(* system: the receiver SeatManager, the three SeatCommand classes, the    *)
(* invoker SeatSelectionInvoker and the facade SeatSelectionController;    *)
(* the seat availability service; and the booking lifecycle (State         *)
(* pattern): BookingContext and its six BookingState classes.              *)
(***************************************************************************)
EXTENDS Integers, Sequences, FiniteSets, TLC

(***************************************************************************)
(* Bounds of the model.                                                    *)
(***************************************************************************)
\* rows / seatsPerRow handed to initializeForShowtime
Rows == 3
SeatsPerRow == 1
\* maxHistorySize handed to the SeatSelectionInvoker constructor
MaxHistory == 2
\* longest seatCodes array handed to selectMultipleSeats
MaxBatch == 2
\* longest run of successful select commands the observer remembers
MaxRun == 3
\* most seats added to one booking
MaxSeats == 2
\* most payments processed by one PaymentService
MaxPayments == 2
\* MAX_LOG_ENTRIES of the proxy, scaled down
MaxLogEntries == 1
\* most seat codes in one confirmBooking through the proxy
MaxProxyBatch == 1
\* maxLogSize of the notifier, scaled down
MaxLogSize == 2

(***************************************************************************)
(* Program constants.                                                      *)
(***************************************************************************)
BasePrice == 50000

AVAILABLE == "AVAILABLE"
SELECTED == "SELECTED"
BOOKED == "BOOKED"
UNAVAILABLE == "UNAVAILABLE"
SeatStatus == {AVAILABLE, SELECTED, BOOKED, UNAVAILABLE}

REGULAR == "REGULAR"
VIP == "VIP"

ShowtimeId == "SHW-1"

rowLabels == <<"A", "B", "C", "D", "E", "F", "G", "H", "I", "J", "K", "L", "M",
               "N", "O", "P", "Q", "R", "S", "T", "U", "V", "W", "X", "Y", "Z">>

\* `${rowLabel}${s}`
SeatCode(rowLabel, s) == rowLabel \o ToString(s)

\* the codes initializeSeats(rows, seatsPerRow) writes
GridCodes(rows, seatsPerRow) ==
    {SeatCode(rowLabels[r + 1], s) : r \in 0 .. (rows - 1), s \in 1 .. seatsPerRow}

\* a seat code no initialization of the model creates
UnknownCode == "Z9"

\* the seat codes callers pass in
Codes == GridCodes(Rows, SeatsPerRow) \cup {UnknownCode}

VARIABLES
    seats,           \* SeatManager.seats: Map<string, Seat>
    selectedSeats,   \* SeatManager.selectedSeats: Set<string>
    undoStack,       \* SeatSelectionInvoker.undoStack
    redoStack,       \* SeatSelectionInvoker.redoStack
    maxHistorySize,  \* SeatSelectionInvoker.maxHistorySize
    seatData,        \* RealSeatAvailabilityService.seatData: Map<string, Seat[][]>
    booking,         \* a BookingContext: state, seats, totalAmount, paidAmount,
                     \* transactionId, stateHistory
    refundAmount,    \* the amount the last call announced as refunded, or "null"
    seatService,     \* CinemaBookingService.seatService: seatLayouts, selectedSeats
    transactions,    \* PaymentService.transactions
    bookingResult,   \* the BookingResult the last completeBooking returned
    cache,           \* SeatAvailabilityProxy.cache: Map<string, CacheEntry>
    accessLog,       \* SeatAvailabilityProxy.accessLog
    currentUser,     \* SeatAvailabilityProxy.currentUser (a user id or "null")
    accessLevel,     \* SeatAvailabilityProxy.accessLevel
    returned,        \* what the last call on the proxy returned, or "null"
    error,           \* the message of the Error the last call threw, or "null"
    observers,       \* BookingNotifier.observers: Map<string, BookingObserver>
    eventLog,        \* BookingNotifier.eventLog
    updated,         \* the observers whose update the last notify called
    notifiedCount,   \* notifiedCount at the end of the last notify
    attachedObservers, \* the observers attached and not handed to detach since
    otherUndoStack,  \* undoStack of a second SeatSelectionInvoker on the same SeatManager
    otherRedoStack,  \* redoStack of the second SeatSelectionInvoker
    selectedThrough, \* for each seat code, the history through which it is selected (0: none)
    last,            \* the last call: its name, arguments, return value
    run              \* observer: the current run of select commands and undos

vars == <<seats, selectedSeats, undoStack, redoStack, maxHistorySize, seatData,
          booking, refundAmount, seatService, transactions, bookingResult,
          cache, accessLog, currentUser, accessLevel, returned, error,
          observers, eventLog, updated, notifiedCount, attachedObservers,
          otherUndoStack, otherRedoStack, selectedThrough, last, run>>

sessionVars == <<otherUndoStack, otherRedoStack, selectedThrough>>
seatVars == <<seats, selectedSeats, undoStack, redoStack, maxHistorySize, sessionVars>>
bookingVars == <<booking, refundAmount>>
facadeVars == <<seatService, transactions, bookingResult>>
proxyVars == <<cache, accessLog, currentUser, accessLevel, returned, error>>
notifierVars == <<observers, eventLog, updated, notifiedCount, attachedObservers>>

(***************************************************************************)
(* SeatManager (the receiver).  A manager value is the pair of its fields. *)
(***************************************************************************)
Manager == [seats |-> seats, selectedSeats |-> selectedSeats]

HasSeat(m, seatCode) == seatCode \in DOMAIN m.seats

SetStatus(m, seatCode, status) ==
    [m EXCEPT !.seats = [m.seats EXCEPT ![seatCode] =
                            [m.seats[seatCode] EXCEPT !.status = status]]]

\* new SeatImpl(seatId, rowLabel, s, seatType, isBooked ? BOOKED : AVAILABLE, price)
NewSeat(showtimeId, r, s, rows, basePrice, isBooked) ==
    LET rowLabel == rowLabels[r + 1]
        seatType == IF r >= rows - 2 THEN VIP ELSE REGULAR
    IN  [id     |-> showtimeId \o "-" \o SeatCode(rowLabel, s),
         row    |-> rowLabel,
         number |-> s,
         type   |-> seatType,
         status |-> IF isBooked THEN BOOKED ELSE AVAILABLE,
         price  |-> IF seatType = VIP THEN (basePrice * 3) \div 2 ELSE basePrice]

\* Map.set(seatCode, seat)
MapSet(map, key, value) ==
    [k \in (DOMAIN map) \cup {key} |-> IF k = key THEN value ELSE map[k]]

\* the loops of initializeSeats, from row r and seat number s on
RECURSIVE InitializeLoop(_, _, _, _, _, _, _, _)
InitializeLoop(map, r, s, showtimeId, rows, seatsPerRow, basePrice, booked) ==
    IF r >= rows THEN map
    ELSE IF s > seatsPerRow
         THEN InitializeLoop(map, r + 1, 1, showtimeId, rows, seatsPerRow, basePrice, booked)
         ELSE LET seatCode == SeatCode(rowLabels[r + 1], s)
              IN  InitializeLoop(
                      MapSet(map, seatCode,
                             NewSeat(showtimeId, r, s, rows, basePrice, seatCode \in booked)),
                      r, s + 1, showtimeId, rows, seatsPerRow, basePrice, booked)

\* initializeSeats: booked is the set of codes for which Math.random() < 0.15.
\* Map.set overwrites the grid's codes and keeps every other entry;
\* selectedSeats is not touched.
InitializeSeats(m, showtimeId, rows, seatsPerRow, basePrice, booked) ==
    [m EXCEPT !.seats = InitializeLoop(m.seats, 0, 1, showtimeId, rows, seatsPerRow,
                                       basePrice, booked)]

\* mutant: the status check is left out
SelectSeat_NoStatusCheck(m, seatCode) ==
    IF ~HasSeat(m, seatCode) THEN [m |-> m, ok |-> FALSE]
    ELSE [m  |-> [SetStatus(m, seatCode, SELECTED)
                      EXCEPT !.selectedSeats = @ \cup {seatCode}],
          ok |-> TRUE]

SelectSeat(m, seatCode) ==
    IF ~HasSeat(m, seatCode) THEN [m |-> m, ok |-> FALSE]
    ELSE IF m.seats[seatCode].status # AVAILABLE THEN [m |-> m, ok |-> FALSE]
    ELSE [m  |-> [SetStatus(m, seatCode, SELECTED)
                      EXCEPT !.selectedSeats = @ \cup {seatCode}],
          ok |-> TRUE]

\* mutant: the deselected seat falls back to the base price
DeselectSeat_BasePrice(m, seatCode) ==
    IF ~HasSeat(m, seatCode) THEN [m |-> m, ok |-> FALSE]
    ELSE IF m.seats[seatCode].status # SELECTED THEN [m |-> m, ok |-> FALSE]
    ELSE [m  |-> [m EXCEPT !.seats = [m.seats EXCEPT ![seatCode] =
                                         [m.seats[seatCode] EXCEPT !.status = AVAILABLE,
                                                                   !.price = BasePrice]],
                           !.selectedSeats = @ \ {seatCode}],
          ok |-> TRUE]

DeselectSeat(m, seatCode) ==
    IF ~HasSeat(m, seatCode) THEN [m |-> m, ok |-> FALSE]
    ELSE IF m.seats[seatCode].status # SELECTED THEN [m |-> m, ok |-> FALSE]
    ELSE [m  |-> [SetStatus(m, seatCode, AVAILABLE)
                      EXCEPT !.selectedSeats = @ \ {seatCode}],
          ok |-> TRUE]

\* getSelectedSeats: the seats of the tracked codes that exist
GetSelectedSeats(m) == {c \in m.selectedSeats : HasSeat(m, c)}

ConfirmBooking(m) ==
    IF m.selectedSeats = {} THEN [m |-> m, ok |-> FALSE]
    ELSE [m  |-> [seats |-> [c \in DOMAIN m.seats |->
                                IF c \in m.selectedSeats
                                THEN [m.seats[c] EXCEPT !.status = BOOKED]
                                ELSE m.seats[c]],
                  selectedSeats |-> {}],
          ok |-> TRUE]

(***************************************************************************)
(* The SeatCommand classes.  A command value holds the fields of its       *)
(* object: kind names the class, seatCodes holds the seatCode of a         *)
(* Select/DeselectSeatCommand (one entry) or the seatCodes array of a      *)
(* SelectMultipleSeatsCommand; timestamp is "null" or "set".               *)
(***************************************************************************)
NewSelectSeatCommand(seatCode) ==
    [kind |-> "SelectSeatCommand", seatCodes |-> <<seatCode>>,
     successfullyCodes |-> <<>>, executed |-> FALSE, timestamp |-> "null"]

NewDeselectSeatCommand(seatCode) ==
    [kind |-> "DeselectSeatCommand", seatCodes |-> <<seatCode>>,
     successfullyCodes |-> <<>>, executed |-> FALSE, timestamp |-> "null"]

NewSelectMultipleSeatsCommand(seatCodes) ==
    [kind |-> "SelectMultipleSeatsCommand", seatCodes |-> seatCodes,
     successfullyCodes |-> <<>>, executed |-> FALSE, timestamp |-> "null"]

SelectSeatCommandExecute(cmd, m) ==
    IF cmd.executed THEN [cmd |-> cmd, m |-> m, ok |-> FALSE]
    ELSE LET r == SelectSeat(m, cmd.seatCodes[1])
         IN  [cmd |-> IF r.ok THEN [cmd EXCEPT !.executed = TRUE, !.timestamp = "set"]
                      ELSE cmd,
              m   |-> r.m,
              ok  |-> r.ok]

\* mutant: undo never calls deselectSeat
SelectSeatCommandUndo_NoDeselect(cmd, m) ==
    IF ~cmd.executed THEN [cmd |-> cmd, m |-> m, ok |-> FALSE]
    ELSE [cmd |-> [cmd EXCEPT !.executed = FALSE], m |-> m, ok |-> TRUE]

SelectSeatCommandUndo(cmd, m) ==
    IF ~cmd.executed THEN [cmd |-> cmd, m |-> m, ok |-> FALSE]
    ELSE LET r == DeselectSeat(m, cmd.seatCodes[1])
         IN  [cmd |-> IF r.ok THEN [cmd EXCEPT !.executed = FALSE] ELSE cmd,
              m   |-> r.m,
              ok  |-> r.ok]

DeselectSeatCommandExecute(cmd, m) ==
    IF cmd.executed THEN [cmd |-> cmd, m |-> m, ok |-> FALSE]
    ELSE LET r == DeselectSeat(m, cmd.seatCodes[1])
         IN  [cmd |-> IF r.ok THEN [cmd EXCEPT !.executed = TRUE, !.timestamp = "set"]
                      ELSE cmd,
              m   |-> r.m,
              ok  |-> r.ok]

DeselectSeatCommandUndo(cmd, m) ==
    IF ~cmd.executed THEN [cmd |-> cmd, m |-> m, ok |-> FALSE]
    ELSE LET r == SelectSeat(m, cmd.seatCodes[1])
         IN  [cmd |-> IF r.ok THEN [cmd EXCEPT !.executed = FALSE] ELSE cmd,
              m   |-> r.m,
              ok  |-> r.ok]

\* for (const code of seatCodes) if (selectSeat(code)) successfullyCodes.push(code)
RECURSIVE SelectEach(_, _, _)
SelectEach(m, seatCodes, successfullyCodes) ==
    IF seatCodes = <<>> THEN [m |-> m, successfullyCodes |-> successfullyCodes]
    ELSE LET r == SelectSeat(m, Head(seatCodes))
         IN  SelectEach(r.m, Tail(seatCodes),
                        IF r.ok THEN Append(successfullyCodes, Head(seatCodes))
                        ELSE successfullyCodes)

\* for (i = length - 1; i >= 0; i--) deselectSeat(successfullyCodes[i])
RECURSIVE DeselectReverse(_, _, _)
DeselectReverse(m, successfullyCodes, i) ==
    IF i < 1 THEN m
    ELSE DeselectReverse(DeselectSeat(m, successfullyCodes[i]).m, successfullyCodes, i - 1)

SelectMultipleSeatsCommandExecute(cmd, m) ==
    IF cmd.executed THEN [cmd |-> cmd, m |-> m, ok |-> FALSE]
    ELSE LET r == SelectEach(m, cmd.seatCodes, <<>>)
         IN  [cmd |-> [cmd EXCEPT !.successfullyCodes = r.successfullyCodes,
                                  !.executed = TRUE, !.timestamp = "set"],
              m   |-> r.m,
              ok  |-> Len(r.successfullyCodes) = Len(cmd.seatCodes)]

SelectMultipleSeatsCommandUndo(cmd, m) ==
    IF ~cmd.executed THEN [cmd |-> cmd, m |-> m, ok |-> FALSE]
    ELSE [cmd |-> [cmd EXCEPT !.successfullyCodes = <<>>, !.executed = FALSE],
          m   |-> DeselectReverse(m, cmd.successfullyCodes, Len(cmd.successfullyCodes)),
          ok  |-> TRUE]

\* command.execute(): dispatch on the command's class
Execute(cmd, m) ==
    CASE cmd.kind = "SelectSeatCommand" -> SelectSeatCommandExecute(cmd, m)
      [] cmd.kind = "DeselectSeatCommand" -> DeselectSeatCommandExecute(cmd, m)
      [] cmd.kind = "SelectMultipleSeatsCommand" -> SelectMultipleSeatsCommandExecute(cmd, m)

\* command.undo(): dispatch on the command's class
Undo(cmd, m) ==
    CASE cmd.kind = "SelectSeatCommand" -> SelectSeatCommandUndo(cmd, m)
      [] cmd.kind = "DeselectSeatCommand" -> DeselectSeatCommandUndo(cmd, m)
      [] cmd.kind = "SelectMultipleSeatsCommand" -> SelectMultipleSeatsCommandUndo(cmd, m)

(***************************************************************************)
(* SeatSelectionInvoker.  An invoker value is the triple of its fields;    *)
(* the last entry of a stack is its top.                                   *)
(***************************************************************************)
Invoker == [undoStack |-> undoStack, redoStack |-> redoStack,
            maxHistorySize |-> maxHistorySize]

Push(stack, cmd) == Append(stack, cmd)
Top(stack) == stack[Len(stack)]
Pop(stack) == SubSeq(stack, 1, Len(stack) - 1)
\* Array.shift(): drop the oldest entry
Shift(stack) == Tail(stack)

\* mutant: the redo stack is not cleared
ExecuteCommand_KeepRedo(inv, command, m) ==
    LET r == Execute(command, m)
    IN  IF r.ok
        THEN LET pushed == Push(inv.undoStack, r.cmd)
             IN  [inv |-> [inv EXCEPT
                             !.undoStack = IF Len(pushed) > inv.maxHistorySize
                                           THEN Shift(pushed) ELSE pushed],
                  m   |-> r.m,
                  ok  |-> TRUE]
        ELSE [inv |-> inv, m |-> r.m, ok |-> FALSE]

\* mutant: a command is pushed whether or not it succeeded
ExecuteCommand_PushFailed(inv, command, m) ==
    LET r == Execute(command, m)
        pushed == Push(inv.undoStack, r.cmd)
    IN  [inv |-> [inv EXCEPT
                    !.undoStack = IF Len(pushed) > inv.maxHistorySize
                                  THEN Shift(pushed) ELSE pushed,
                    !.redoStack = <<>>],
         m   |-> r.m,
         ok  |-> r.ok]

\* mutant: the history size is not limited
ExecuteCommand_NoShift(inv, command, m) ==
    LET r == Execute(command, m)
    IN  IF r.ok
        THEN [inv |-> [inv EXCEPT !.undoStack = Push(inv.undoStack, r.cmd),
                                  !.redoStack = <<>>],
              m   |-> r.m,
              ok  |-> TRUE]
        ELSE [inv |-> inv, m |-> r.m, ok |-> FALSE]

ExecuteCommand(inv, command, m) ==
    LET r == Execute(command, m)
    IN  IF r.ok
        THEN LET pushed == Push(inv.undoStack, r.cmd)
             IN  [inv |-> [inv EXCEPT
                             !.undoStack = IF Len(pushed) > inv.maxHistorySize
                                           THEN Shift(pushed) ELSE pushed,
                             !.redoStack = <<>>],
                  m   |-> r.m,
                  ok  |-> TRUE]
        ELSE [inv |-> inv, m |-> r.m, ok |-> FALSE]

\* mutant: an empty undo stack is reported as a success
InvokerUndo_EmptyIsTrue(inv, m) ==
    IF Len(inv.undoStack) = 0 THEN [inv |-> inv, m |-> m, ok |-> TRUE]
    ELSE LET r == Undo(Top(inv.undoStack), m)
         IN  [inv |-> [inv EXCEPT
                         !.undoStack = Pop(inv.undoStack),
                         !.redoStack = IF r.ok THEN Push(inv.redoStack, r.cmd)
                                       ELSE inv.redoStack],
              m   |-> r.m,
              ok  |-> r.ok]

\* mutant: a command whose undo failed goes to the redo stack all the same
InvokerUndo_KeepFailed(inv, m) ==
    IF Len(inv.undoStack) = 0 THEN [inv |-> inv, m |-> m, ok |-> FALSE]
    ELSE LET r == Undo(Top(inv.undoStack), m)
         IN  [inv |-> [inv EXCEPT
                         !.undoStack = Pop(inv.undoStack),
                         !.redoStack = Push(inv.redoStack, r.cmd)],
              m   |-> r.m,
              ok  |-> r.ok]

InvokerUndo(inv, m) ==
    IF Len(inv.undoStack) = 0 THEN [inv |-> inv, m |-> m, ok |-> FALSE]
    ELSE LET r == Undo(Top(inv.undoStack), m)
         IN  [inv |-> [inv EXCEPT
                         !.undoStack = Pop(inv.undoStack),
                         !.redoStack = IF r.ok THEN Push(inv.redoStack, r.cmd)
                                       ELSE inv.redoStack],
              m   |-> r.m,
              ok  |-> r.ok]

\* mutant: redo leaves the command on the redo stack
InvokerRedo_NoPop(inv, m) ==
    IF Len(inv.redoStack) = 0 THEN [inv |-> inv, m |-> m, ok |-> FALSE]
    ELSE LET r == Execute(Top(inv.redoStack), m)
         IN  [inv |-> [inv EXCEPT
                         !.undoStack = IF r.ok THEN Push(inv.undoStack, r.cmd)
                                       ELSE inv.undoStack],
              m   |-> r.m,
              ok  |-> r.ok]

InvokerRedo(inv, m) ==
    IF Len(inv.redoStack) = 0 THEN [inv |-> inv, m |-> m, ok |-> FALSE]
    ELSE LET r == Execute(Top(inv.redoStack), m)
         IN  [inv |-> [inv EXCEPT
                         !.redoStack = Pop(inv.redoStack),
                         !.undoStack = IF r.ok THEN Push(inv.undoStack, r.cmd)
                                       ELSE inv.undoStack],
              m   |-> r.m,
              ok  |-> r.ok]

ClearHistory(inv) == [inv EXCEPT !.undoStack = <<>>, !.redoStack = <<>>]

(***************************************************************************)
(* RealSeatAvailabilityService.  seatData maps a showtime id to its matrix *)
(* of seats (rows of seats).  The service builds 10 rows of 15 seats; the  *)
(* model builds Rows rows of SeatsPerRow seats.                            *)
(***************************************************************************)
Showtimes == {"SHW-1", "SHW-2"}

Null == "null"

\* booked is the set of codes for which Math.random() < 0.2
InitializeShowtime(data, showtimeId, booked) ==
    IF showtimeId \in DOMAIN data THEN data
    ELSE MapSet(data, showtimeId,
                [r \in 1 .. Rows |->
                   [s \in 1 .. SeatsPerRow |->
                      LET rowLabel == rowLabels[r]
                          seatType == IF r - 1 >= Rows - 2 THEN VIP ELSE REGULAR
                      IN  [id     |-> showtimeId \o "-" \o SeatCode(rowLabel, s),
                           row    |-> rowLabel,
                           number |-> s,
                           type   |-> seatType,
                           status |-> IF SeatCode(rowLabel, s) \in booked
                                      THEN BOOKED ELSE AVAILABLE,
                           price  |-> IF seatType = VIP THEN 75000 ELSE 50000]]])

\* SeatImpl.getCode
GetCode(seat) == SeatCode(seat.row, seat.number)

\* findSeat on initialized data: the position <<r, s>> of the first seat, row
\* by row, whose code is seatCode, or Null
FindSeat(data, showtimeId, seatCode) ==
    LET rows == IF showtimeId \in DOMAIN data THEN data[showtimeId] ELSE <<>>
        hits == {p \in (1 .. Len(rows)) \X (1 .. SeatsPerRow) :
                    p[2] <= Len(rows[p[1]]) /\ GetCode(rows[p[1]][p[2]]) = seatCode}
    IN  IF hits = {} THEN Null
        ELSE CHOOSE p \in hits :
                \A q \in hits : p[1] < q[1] \/ (p[1] = q[1] /\ p[2] <= q[2])

SeatAt(data, showtimeId, p) == data[showtimeId][p[1]][p[2]]

SetSeatStatus(data, showtimeId, p, status) ==
    [data EXCEPT ![showtimeId][p[1]][p[2]].status = status]

RealSelectSeat(data, showtimeId, seatCode, booked) ==
    LET d == InitializeShowtime(data, showtimeId, booked)
        p == FindSeat(d, showtimeId, seatCode)
    IN  IF p # Null /\ SeatAt(d, showtimeId, p).status = AVAILABLE
        THEN [data |-> SetSeatStatus(d, showtimeId, p, SELECTED), ok |-> TRUE]
        ELSE [data |-> d, ok |-> FALSE]

RealDeselectSeat(data, showtimeId, seatCode, booked) ==
    LET d == InitializeShowtime(data, showtimeId, booked)
        p == FindSeat(d, showtimeId, seatCode)
    IN  IF p # Null /\ SeatAt(d, showtimeId, p).status = SELECTED
        THEN [data |-> SetSeatStatus(d, showtimeId, p, AVAILABLE), ok |-> TRUE]
        ELSE [data |-> d, ok |-> FALSE]

\* the second loop of confirmBooking
RECURSIVE BookEach(_, _, _)
BookEach(data, showtimeId, seatCodes) ==
    IF seatCodes = <<>> THEN data
    ELSE LET p == FindSeat(data, showtimeId, Head(seatCodes))
         IN  BookEach(IF p # Null THEN SetSeatStatus(data, showtimeId, p, BOOKED) ELSE data,
                      showtimeId, Tail(seatCodes))

\* confirmBooking: findSeat (and with it the lazy initialization) runs only if
\* there is a code to look up
RealConfirmBooking(data, showtimeId, seatCodes, booked) ==
    IF seatCodes = <<>> THEN [data |-> data, ok |-> TRUE]
    ELSE LET d == InitializeShowtime(data, showtimeId, booked)
             allSelected ==
                 \A i \in 1 .. Len(seatCodes) :
                    LET p == FindSeat(d, showtimeId, seatCodes[i])
                    IN  p # Null /\ SeatAt(d, showtimeId, p).status = SELECTED
         IN  IF allSelected
             THEN [data |-> BookEach(d, showtimeId, seatCodes), ok |-> TRUE]
             ELSE [data |-> d, ok |-> FALSE]

(***************************************************************************)
(* BookingContext and the BookingState classes.  A context value holds the *)
(* fields of the object; state is the name of its current state object;    *)
(* an entry of stateHistory is the pair (fromState, toState).              *)
(***************************************************************************)
Draft == "Draft"
Pending == "Pending"
Paid == "Paid"
Confirmed == "Confirmed"
Completed == "Completed"
Cancelled == "Cancelled"
BookingStates == {Draft, Pending, Paid, Confirmed, Completed, Cancelled}

\* `TXN-${Date.now().toString(36).toUpperCase()}`
TransactionId == "TXN"

\* the constructor: seats = [], totalAmount = 0, paidAmount = 0,
\* transactionId = null, state = new DraftState(), logStateChange('Initial')
NewBookingContext ==
    [state         |-> Draft,
     seats         |-> <<>>,
     totalAmount   |-> 0,
     paidAmount    |-> 0,
     transactionId |-> Null,
     stateHistory  |-> << [fromState |-> "Initial", toState |-> Draft] >>]

\* mutant: a state change is not logged
SetState_NoLog(ctx, state) == [ctx EXCEPT !.state = state]

\* mutant: the previous state is read after the assignment
SetState_LogsNewState(ctx, state) ==
    [ctx EXCEPT !.state = state,
                !.stateHistory = Append(@, [fromState |-> state, toState |-> state])]

\* setState: previousState = state.getName(); state = ...; logStateChange(previousState)
SetState(ctx, state) ==
    [ctx EXCEPT !.state = state,
                !.stateHistory = Append(@, [fromState |-> ctx.state, toState |-> state])]

SetPaidAmount(ctx, amount) == [ctx EXCEPT !.paidAmount = amount]

SetTransactionId(ctx, id) == [ctx EXCEPT !.transactionId = id]

CanModify(state) == state = Draft

\* Math.round(num / den) for den > 0: the nearest integer, a half rounded up
MathRound(num, den) == (2 * num + den) \div (2 * den)

\* mutant: seats are added in every state
AddSeat_AnyState(ctx, seatCode, price) ==
    [ctx EXCEPT !.seats = Append(@, seatCode), !.totalAmount = @ + price]

\* BookingContext.addSeat: state.addSeat only logs, in every state
AddSeat(ctx, seatCode, price) ==
    IF CanModify(ctx.state)
    THEN [ctx EXCEPT !.seats = Append(@, seatCode), !.totalAmount = @ + price]
    ELSE ctx

\* mutant: a booking without seats proceeds to payment
DraftStateProceedToPayment_NoSeatCheck(ctx) == SetState(ctx, Pending)

DraftStateProceedToPayment(ctx) ==
    IF Len(ctx.seats) = 0 THEN ctx ELSE SetState(ctx, Pending)

DraftStateCancel(ctx) == SetState(ctx, Cancelled)

\* mutant: every amount is accepted
PendingStatePay_AnyAmount(ctx, amount) ==
    SetState(SetTransactionId(SetPaidAmount(ctx, amount), TransactionId), Paid)

\* mutant: no transaction id is set
PendingStatePay_NoTransactionId(ctx, amount) ==
    LET required == ctx.totalAmount
    IN  IF amount < required THEN ctx
        ELSE SetState(SetPaidAmount(ctx, amount), Paid)

PendingStatePay(ctx, amount) ==
    LET required == ctx.totalAmount
    IN  IF amount < required THEN ctx
        ELSE SetState(SetTransactionId(SetPaidAmount(ctx, amount), TransactionId), Paid)

PendingStateCancel(ctx) == SetState(ctx, Cancelled)

PaidStateConfirm(ctx) == SetState(ctx, Confirmed)

\* mutant: a paid booking can be cancelled
PaidStateCancel_Cancels(ctx) == SetState(ctx, Cancelled)

\* PaidState.cancel only logs
PaidStateCancel(ctx) == ctx

\* announces context.getPaidAmount() as refunded
PaidStateRefund(ctx) ==
    [ctx |-> SetState(ctx, Cancelled), refundAmount |-> ctx.paidAmount]

ConfirmedStateComplete(ctx) == SetState(ctx, Completed)

\* mutant: the refund of a confirmed booking is the full paid amount
ConfirmedStateRefund_Full(ctx) ==
    [ctx |-> SetState(ctx, Cancelled), refundAmount |-> ctx.paidAmount]

\* refundAmount = Math.round(context.getPaidAmount() * 0.8)
ConfirmedStateRefund(ctx) ==
    [ctx |-> SetState(ctx, Cancelled), refundAmount |-> MathRound(ctx.paidAmount * 8, 10)]

\* mutant: a completed booking can be cancelled
CompletedStateCancel_Cancels(ctx) == SetState(ctx, Cancelled)

\* CompletedState.cancel only logs
CompletedStateCancel(ctx) == ctx

\* mutant: complete is handled as in Confirmed whatever the state
Complete_AnyState(ctx) == ConfirmedStateComplete(ctx)

\* BookingContext.proceedToPayment: this.state.proceedToPayment(this); the
\* methods not named here only log
ProceedToPayment(ctx) ==
    CASE ctx.state = Draft -> DraftStateProceedToPayment(ctx)
      [] ctx.state \in {Pending, Paid, Confirmed, Completed, Cancelled} -> ctx

\* mutant: pay is handled as in Pending whatever the state
Pay_AnyState(ctx, amount) == PendingStatePay(ctx, amount)

Pay(ctx, amount) ==
    CASE ctx.state = Pending -> PendingStatePay(ctx, amount)
      [] ctx.state \in {Draft, Paid, Confirmed, Completed, Cancelled} -> ctx

Confirm(ctx) ==
    CASE ctx.state = Paid -> PaidStateConfirm(ctx)
      [] ctx.state \in {Draft, Pending, Confirmed, Completed, Cancelled} -> ctx

Complete(ctx) ==
    CASE ctx.state = Confirmed -> ConfirmedStateComplete(ctx)
      [] ctx.state \in {Draft, Pending, Paid, Completed, Cancelled} -> ctx

Cancel(ctx) ==
    CASE ctx.state = Draft -> DraftStateCancel(ctx)
      [] ctx.state = Pending -> PendingStateCancel(ctx)
      [] ctx.state = Paid -> PaidStateCancel(ctx)
      [] ctx.state = Completed -> CompletedStateCancel(ctx)
      [] ctx.state \in {Confirmed, Cancelled} -> ctx

Refund(ctx) ==
    CASE ctx.state = Paid -> PaidStateRefund(ctx)
      [] ctx.state = Confirmed -> ConfirmedStateRefund(ctx)
      [] ctx.state \in {Draft, Pending, Completed, Cancelled} ->
            [ctx |-> ctx, refundAmount |-> Null]

(***************************************************************************)
(* CinemaBookingService (the facade) with its SeatService and              *)
(* PaymentService.  A seat service value is the pair of its fields:        *)
(* seatLayouts maps a showtime id to its matrix of seats, selectedSeats    *)
(* maps it to a set of seat codes.  transactions holds the status of each  *)
(* PaymentResult in the order the payments were made.  The studio of the   *)
(* showtime has Rows rows of SeatsPerRow seats.                            *)
(***************************************************************************)
SUCCESS == "SUCCESS"
FAILED == "FAILED"

NewSeatService == [seatLayouts |-> <<>>, selectedSeats |-> <<>>]

\* a layout of AVAILABLE REGULAR seats; the showtime's selected set is emptied
InitializeSeatLayout(svc, showtimeId, rows, seatsPerRow) ==
    [seatLayouts |->
        MapSet(svc.seatLayouts, showtimeId,
               [r \in 1 .. rows |->
                  [s \in 1 .. seatsPerRow |->
                     [id     |-> showtimeId \o "-" \o SeatCode(rowLabels[r], s),
                      row    |-> rowLabels[r],
                      number |-> s,
                      type   |-> REGULAR,
                      status |-> AVAILABLE,
                      price  |-> 50000]]]),
     selectedSeats |-> MapSet(svc.selectedSeats, showtimeId, {})]

\* SeatService.selectSeat
SeatServiceSelectSeat(svc, showtimeId, seatCode) ==
    LET p == FindSeat(svc.seatLayouts, showtimeId, seatCode)
    IN  IF p # Null /\ SeatAt(svc.seatLayouts, showtimeId, p).status = AVAILABLE
        THEN [svc |-> [seatLayouts |-> SetSeatStatus(svc.seatLayouts, showtimeId, p, SELECTED),
                       selectedSeats |->
                           IF showtimeId \in DOMAIN svc.selectedSeats
                           THEN [svc.selectedSeats EXCEPT ![showtimeId] = @ \cup {seatCode}]
                           ELSE svc.selectedSeats],
              ok  |-> TRUE]
        ELSE [svc |-> svc, ok |-> FALSE]

\* SeatService.deselectSeat
SeatServiceDeselectSeat(svc, showtimeId, seatCode) ==
    LET p == FindSeat(svc.seatLayouts, showtimeId, seatCode)
    IN  IF p # Null /\ SeatAt(svc.seatLayouts, showtimeId, p).status = SELECTED
        THEN [svc |-> [seatLayouts |-> SetSeatStatus(svc.seatLayouts, showtimeId, p, AVAILABLE),
                       selectedSeats |->
                           IF showtimeId \in DOMAIN svc.selectedSeats
                           THEN [svc.selectedSeats EXCEPT ![showtimeId] = @ \ {seatCode}]
                           ELSE svc.selectedSeats],
              ok  |-> TRUE]
        ELSE [svc |-> svc, ok |-> FALSE]

\* SeatService.bookSelectedSeats: book() every tracked seat that is found (book
\* acts on a SELECTED seat only), then empty the tracked set
BookSelectedSeats(svc, showtimeId) ==
    LET selectedCodes == IF showtimeId \in DOMAIN svc.selectedSeats
                         THEN svc.selectedSeats[showtimeId] ELSE {}
        layout == IF showtimeId \in DOMAIN svc.seatLayouts
                  THEN svc.seatLayouts[showtimeId] ELSE <<>>
    IN  [seatLayouts |->
            IF showtimeId \in DOMAIN svc.seatLayouts
            THEN [svc.seatLayouts EXCEPT ![showtimeId] =
                     [r \in 1 .. Len(layout) |->
                        [s \in 1 .. Len(layout[r]) |->
                           IF GetCode(layout[r][s]) \in selectedCodes
                              /\ layout[r][s].status = SELECTED
                           THEN [layout[r][s] EXCEPT !.status = BOOKED]
                           ELSE layout[r][s]]]]
            ELSE svc.seatLayouts,
         selectedSeats |-> MapSet(svc.selectedSeats, showtimeId, {})]

\* step 3 of completeBooking: select the seats in order; failed is the first
\* code whose selectSeat returned false, at which the loop is left, or Null
RECURSIVE SelectSeatsInOrder(_, _, _)
SelectSeatsInOrder(svc, showtimeId, seatCodes) ==
    IF seatCodes = <<>> THEN [svc |-> svc, failed |-> Null]
    ELSE LET r == SeatServiceSelectSeat(svc, showtimeId, Head(seatCodes))
         IN  IF r.ok THEN SelectSeatsInOrder(r.svc, showtimeId, Tail(seatCodes))
             ELSE [svc |-> r.svc, failed |-> Head(seatCodes)]

\* the rollback of completeBooking: deselectSeat for every code
RECURSIVE DeselectSeatsInOrder(_, _, _)
DeselectSeatsInOrder(svc, showtimeId, seatCodes) ==
    IF seatCodes = <<>> THEN svc
    ELSE DeselectSeatsInOrder(SeatServiceDeselectSeat(svc, showtimeId, Head(seatCodes)).svc,
                              showtimeId, Tail(seatCodes))

\* `Kursi ${code} tidak tersedia`
SeatNotAvailable(code) == "Kursi " \o code \o " tidak tersedia"

\* CinemaBookingService.completeBooking.  isPast is showtime.isPast(),
\* isSuccess the outcome Math.random() > 0.1 of processPayment; build() throws
\* 'Minimal harus ada 1 tiket' for a booking without tickets and the catch
\* block returns the error's message.
CompleteBooking(svc, txns, showtimeId, seatCodes, isPast, isSuccess) ==
    IF isPast
    THEN [svc |-> svc, transactions |-> txns, success |-> FALSE,
          message |-> "Jadwal tayang sudah lewat"]
    ELSE LET init == InitializeSeatLayout(svc, showtimeId, Rows, SeatsPerRow)
             sel == SelectSeatsInOrder(init, showtimeId, seatCodes)
         IN  IF sel.failed # Null
             THEN [svc |-> sel.svc, transactions |-> txns, success |-> FALSE,
                   message |-> SeatNotAvailable(sel.failed)]
             ELSE IF seatCodes = <<>>
             THEN [svc |-> sel.svc, transactions |-> txns, success |-> FALSE,
                   message |-> "Minimal harus ada 1 tiket"]
             ELSE IF ~isSuccess
             THEN [svc |-> DeselectSeatsInOrder(sel.svc, showtimeId, seatCodes),
                   transactions |-> Append(txns, FAILED), success |-> FALSE,
                   message |-> "Pembayaran gagal, silakan coba lagi"]
             ELSE [svc |-> BookSelectedSeats(sel.svc, showtimeId),
                   transactions |-> Append(txns, SUCCESS), success |-> TRUE,
                   message |-> "Booking berhasil! E-ticket telah dikirim ke email Anda."]

(***************************************************************************)
(* SeatAvailabilityProxy.  A proxy value holds the fields cache, accessLog, *)
(* currentUser and accessLevel; its real service is the seatData it is     *)
(* handed and hands back.  A cache entry holds as data the codes of the    *)
(* seats in the cached array; whether an entry has outlived its ttl is an  *)
(* outcome (expired) of the call that looks at it.  A user is known by its *)
(* id; the log is cut at MaxLogEntries entries.                            *)
(***************************************************************************)
GUEST == 0
MEMBER == 1
AccessVIP == 2
ADMIN == 3
AccessLevelName == [l \in {GUEST, MEMBER, AccessVIP, ADMIN} |->
                       CASE l = GUEST -> "GUEST" [] l = MEMBER -> "MEMBER"
                         [] l = AccessVIP -> "VIP" [] l = ADMIN -> "ADMIN"]

\* the users handed to setCurrentUser and their membership
Users == {"USER-1", "USER-2"}
Membership == [u \in Users |-> IF u = "USER-1" THEN "GOLD" ELSE "PLATINUM"]

NewProxy == [cache |-> <<>>, accessLog |-> <<>>, currentUser |-> Null, accessLevel |-> GUEST]

DetermineAccessLevel(user) ==
    IF user = Null THEN GUEST
    ELSE IF Membership[user] = "PLATINUM" THEN AccessVIP
    ELSE MEMBER

SetCurrentUser(px, user) ==
    [px EXCEPT !.currentUser = user, !.accessLevel = DetermineAccessLevel(user)]

\* key.includes(part)
Includes(key, part) ==
    \E i \in 1 .. (Len(key) - Len(part) + 1) : SubSeq(key, i, i + Len(part) - 1) = part

\* Map.delete for every key of the set
MapDelete(map, keys) == [k \in (DOMAIN map) \ keys |-> map[k]]

\* seatCodes.join(', ')
RECURSIVE Join(_, _)
Join(q, sep) ==
    IF q = <<>> THEN ""
    ELSE IF Len(q) = 1 THEN q[1]
    ELSE q[1] \o sep \o Join(Tail(q), sep)

\* isCacheValid: an expired entry is deleted
IsCacheValid(px, key, expired) ==
    IF key \notin DOMAIN px.cache THEN [px |-> px, valid |-> FALSE]
    ELSE IF expired THEN [px |-> [px EXCEPT !.cache = MapDelete(@, {key})], valid |-> FALSE]
    ELSE [px |-> px, valid |-> TRUE]

\* mutant: the log is written without a size limit
LogAccess_NoLimit(px, method, showtimeId, details) ==
    [px EXCEPT !.accessLog =
        Append(@, [userId    |-> IF px.currentUser = Null THEN "GUEST" ELSE px.currentUser,
                   method    |-> method,
                   showtimeId |-> showtimeId,
                   details   |-> details])]

LogAccess(px, method, showtimeId, details) ==
    LET entry == [userId    |-> IF px.currentUser = Null THEN "GUEST" ELSE px.currentUser,
                  method    |-> method,
                  showtimeId |-> showtimeId,
                  details   |-> details]
        pushed == Append(px.accessLog, entry)
    IN  [px EXCEPT !.accessLog = IF Len(pushed) > MaxLogEntries THEN Tail(pushed) ELSE pushed]

\* checkAccess: the message of the Error it throws, or Null
CheckAccess(px, requiredLevel, operation) ==
    IF px.accessLevel < requiredLevel
    THEN "Access denied: " \o operation \o " requires " \o AccessLevelName[requiredLevel]
            \o " level"
    ELSE Null

\* mutant: the cache is left as it is
InvalidateCache_Nothing(px, showtimeId) == px

InvalidateCache(px, showtimeId) ==
    [px EXCEPT !.cache = MapDelete(@, {key \in DOMAIN @ : Includes(key, showtimeId)})]

ClearCache(px) == [px EXCEPT !.cache = <<>>]

\* rows.flat(): the seats of a showtime's matrix
FlatSeats(data, showtimeId) ==
    IF showtimeId \notin DOMAIN data THEN {}
    ELSE LET matrix == data[showtimeId]
         IN  {matrix[r][i] : r \in 1 .. Len(matrix), i \in 1 .. SeatsPerRow}

\* RealSeatAvailabilityService.getSeats
RealGetSeats(data, showtimeId, booked) ==
    LET d == InitializeShowtime(data, showtimeId, booked)
    IN  [data |-> d, seats |-> {GetCode(seat) : seat \in FlatSeats(d, showtimeId)}]

\* RealSeatAvailabilityService.getAvailableSeats
RealGetAvailableSeats(data, showtimeId, booked) ==
    LET d == InitializeShowtime(data, showtimeId, booked)
    IN  [data |-> d,
         seats |-> {GetCode(seat) : seat \in {t \in FlatSeats(d, showtimeId) :
                                                t.status = AVAILABLE}}]

\* RealSeatAvailabilityService.isSeatAvailable
RealIsSeatAvailable(data, showtimeId, seatCode, booked) ==
    LET d == InitializeShowtime(data, showtimeId, booked)
        p == FindSeat(d, showtimeId, seatCode)
    IN  [data |-> d, ok |-> p # Null /\ SeatAt(d, showtimeId, p).status = AVAILABLE]

Thrown(px, data, message) ==
    [px |-> px, data |-> data, returned |-> Null, error |-> message]

Returned(px, data, value) ==
    [px |-> px, data |-> data, returned |-> value, error |-> Null]

\* getSeats after checkAccess and logAccess
CachedGetSeats(px, data, showtimeId, expired, booked) ==
    LET cacheKey == "seats-all-" \o showtimeId
        v == IsCacheValid(px, cacheKey, expired)
    IN  IF v.valid THEN Returned(v.px, data, v.px.cache[cacheKey].data)
        ELSE LET r == RealGetSeats(data, showtimeId, booked)
             IN  Returned([v.px EXCEPT !.cache = MapSet(@, cacheKey, [data |-> r.seats])],
                          r.data, r.seats)

ProxyGetSeats(px, data, showtimeId, expired, booked) ==
    LET denied == CheckAccess(px, GUEST, "view seats")
    IN  IF denied # Null THEN Thrown(px, data, denied)
        ELSE CachedGetSeats(LogAccess(px, "getSeats", showtimeId, Null), data, showtimeId,
                            expired, booked)

ProxyGetAvailableSeats(px, data, showtimeId, expired, booked) ==
    LET denied == CheckAccess(px, GUEST, "view available seats")
    IN  IF denied # Null THEN Thrown(px, data, denied)
        ELSE LET logged == LogAccess(px, "getAvailableSeats", showtimeId, Null)
                 cacheKey == "seats-available-" \o showtimeId
                 v == IsCacheValid(logged, cacheKey, expired)
             IN  IF v.valid THEN Returned(v.px, data, v.px.cache[cacheKey].data)
                 ELSE LET r == RealGetAvailableSeats(data, showtimeId, booked)
                      IN  Returned([v.px EXCEPT !.cache =
                                       MapSet(@, cacheKey, [data |-> r.seats])],
                                   r.data, r.seats)

ProxyIsSeatAvailable(px, data, showtimeId, seatCode, booked) ==
    LET denied == CheckAccess(px, GUEST, "check seat availability")
    IN  IF denied # Null THEN Thrown(px, data, denied)
        ELSE LET r == RealIsSeatAvailable(data, showtimeId, seatCode, booked)
             IN  Returned(LogAccess(px, "isSeatAvailable", showtimeId, "seat: " \o seatCode),
                          r.data, r.ok)

\* mutant: the cache is not invalidated
ProxySelectSeat_NoInvalidate(px, data, showtimeId, seatCode, booked) ==
    LET denied == CheckAccess(px, MEMBER, "select seat")
    IN  IF denied # Null THEN Thrown(px, data, denied)
        ELSE LET r == RealSelectSeat(data, showtimeId, seatCode, booked)
             IN  Returned(LogAccess(px, "selectSeat", showtimeId, "seat: " \o seatCode),
                          r.data, r.ok)

\* mutant: the access check is left out
ProxySelectSeat_NoCheck(px, data, showtimeId, seatCode, booked) ==
    LET r == RealSelectSeat(data, showtimeId, seatCode, booked)
    IN  Returned(InvalidateCache(LogAccess(px, "selectSeat", showtimeId,
                                           "seat: " \o seatCode), showtimeId),
                 r.data, r.ok)

ProxySelectSeat(px, data, showtimeId, seatCode, booked) ==
    LET denied == CheckAccess(px, MEMBER, "select seat")
    IN  IF denied # Null THEN Thrown(px, data, denied)
        ELSE LET r == RealSelectSeat(data, showtimeId, seatCode, booked)
             IN  Returned(InvalidateCache(LogAccess(px, "selectSeat", showtimeId,
                                                    "seat: " \o seatCode), showtimeId),
                          r.data, r.ok)

ProxyDeselectSeat(px, data, showtimeId, seatCode, booked) ==
    LET denied == CheckAccess(px, MEMBER, "deselect seat")
    IN  IF denied # Null THEN Thrown(px, data, denied)
        ELSE LET r == RealDeselectSeat(data, showtimeId, seatCode, booked)
             IN  Returned(InvalidateCache(LogAccess(px, "deselectSeat", showtimeId,
                                                    "seat: " \o seatCode), showtimeId),
                          r.data, r.ok)

ProxyConfirmBooking(px, data, showtimeId, seatCodes, booked) ==
    LET denied == CheckAccess(px, MEMBER, "confirm booking")
    IN  IF denied # Null THEN Thrown(px, data, denied)
        ELSE LET r == RealConfirmBooking(data, showtimeId, seatCodes, booked)
             IN  Returned(InvalidateCache(LogAccess(px, "confirmBooking", showtimeId,
                                                    "seats: " \o Join(seatCodes, ", ")),
                                          showtimeId),
                          r.data, r.ok)

\* getVIPSeats: this.getSeats(showtimeId) filtered by seat.type
ProxyGetVIPSeats(px, data, showtimeId, expired, booked) ==
    LET denied == CheckAccess(px, AccessVIP, "preview VIP seats")
    IN  IF denied # Null THEN Thrown(px, data, denied)
        ELSE LET r == ProxyGetSeats(LogAccess(px, "getVIPSeats", showtimeId, Null), data,
                                    showtimeId, expired, booked)
             IN  Returned(r.px, r.data,
                          {GetCode(seat) : seat \in {t \in FlatSeats(r.data, showtimeId) :
                                                         /\ GetCode(t) \in r.returned
                                                         /\ t.type = VIP}})

(***************************************************************************)
(* BookingNotifier.  An observer is an object with a name and the event    *)
(* types it subscribes to; two objects of one class have the same name.    *)
(* The Map observers is the sequence of its entries in insertion order.    *)
(* An event is known by its type and booking id; the log is cut at         *)
(* MaxLogSize events.                                                      *)
(***************************************************************************)
BookingEventTypes ==
    {"BOOKING_CREATED", "PAYMENT_PENDING", "PAYMENT_SUCCESS", "PAYMENT_FAILED",
     "BOOKING_CONFIRMED", "BOOKING_CANCELLED", "BOOKING_COMPLETED",
     "REMINDER_1_HOUR", "REMINDER_24_HOUR"}

\* the observer objects handed to attach and detach
ObserverObjects == {"email#1", "email#2", "sms#1", "analytics#1"}

\* getName()
ObserverName ==
    [o \in ObserverObjects |->
        CASE o \in {"email#1", "email#2"} -> "EmailNotification"
          [] o = "sms#1" -> "SMSNotification"
          [] o = "analytics#1" -> "AnalyticsSystem"]

\* getSubscribedEvents()
SubscribedEvents ==
    [o \in ObserverObjects |->
        CASE o \in {"email#1", "email#2"} ->
                {"BOOKING_CREATED", "PAYMENT_SUCCESS", "BOOKING_CONFIRMED",
                 "BOOKING_CANCELLED", "REMINDER_24_HOUR"}
          [] o = "sms#1" -> {"PAYMENT_SUCCESS", "BOOKING_CONFIRMED", "REMINDER_1_HOUR"}
          [] o = "analytics#1" -> BookingEventTypes]

NewNotifier == [observers |-> <<>>, eventLog |-> <<>>]

\* this.observers.has(name)
ObserversHas(n, name) == \E i \in 1 .. Len(n.observers) : n.observers[i].name = name

Attach(n, observer) ==
    IF ObserversHas(n, ObserverName[observer]) THEN n
    ELSE [n EXCEPT !.observers =
             Append(@, [name |-> ObserverName[observer], observer |-> observer])]

Detach(n, observer) ==
    [n EXCEPT !.observers = SelectSeq(@, LAMBDA e : e.name # ObserverName[observer])]

\* mutant: the log is never shifted
LogEvent_NoShift(n, event) == [n EXCEPT !.eventLog = Append(@, event)]

LogEvent(n, event) ==
    LET pushed == Append(n.eventLog, event)
    IN  [n EXCEPT !.eventLog = IF Len(pushed) > MaxLogSize THEN Tail(pushed) ELSE pushed]

\* notify: updated lists the observers whose update was called, in order;
\* the update of an observer in throwers throws, and is caught in the loop,
\* so that notify itself never throws
Notify(n, event, throwers) ==
    LET subscribed == SelectSeq(n.observers,
                                LAMBDA e : event.eventType \in SubscribedEvents[e.observer])
    IN  [notifier |-> LogEvent(n, event),
         updated |-> [i \in 1 .. Len(subscribed) |-> subscribed[i].observer],
         notifiedCount |-> Cardinality({i \in 1 .. Len(subscribed) :
                                           subscribed[i].observer \notin throwers}),
         threw |-> FALSE]

(***************************************************************************)
(* Observers of a behaviour (not program state).                           *)
(*   last: the last call made: its name, its return value, the seats it    *)
(*         turned SELECTED, the lengths of the undo and redo stacks before *)
(*         it (for calls on the history), for undo the tracked selected    *)
(*         set before it, and the arguments of a call on the service;      *)
(*   run:  the seat maps before each of the latest consecutive successful  *)
(*         select commands (the last MaxRun of them), and the number of    *)
(*         undo calls that followed them immediately; on a SeatManager     *)
(*         used on its own, the seat map before the latest successful      *)
(*         selectSeat and whether the deselectSeat of that seat followed.  *)
(***************************************************************************)
HistoryCalls == {"selectSeat", "deselectSeat", "selectMultipleSeats", "undo", "redo"}

Called(op, ok) ==
    [op |-> op, ok |-> ok,
     selected |-> {c \in (DOMAIN seats) \cap (DOMAIN seats') :
                      seats[c].status # SELECTED /\ seats'[c].status = SELECTED},
     hist |-> IF op \in HistoryCalls THEN <<Len(undoStack), Len(redoStack)>> ELSE <<0, 0>>,
     pre |-> IF op = "undo" THEN selectedSeats ELSE {},
     args |-> <<>>]

CalledWith(op, args, ok) == [Called(op, ok) EXCEPT !.args = args]

NoRun == [snaps |-> <<>>, undos |-> 0]

Range(q) == {q[i] : i \in 1 .. Len(q)}

KeepLast(s, n) == IF Len(s) > n THEN SubSeq(s, Len(s) - n + 1, Len(s)) ELSE s

RunAfterSelectCommand(ok) ==
    IF ~ok THEN NoRun
    ELSE IF run.undos = 0
         THEN [snaps |-> KeepLast(Append(run.snaps, seats), MaxRun), undos |-> 0]
         ELSE [snaps |-> <<seats>>, undos |-> 0]

RunAfterUndo ==
    IF run.undos < Len(run.snaps) THEN [run EXCEPT !.undos = @ + 1] ELSE NoRun

\* the last call was the SeatManager.selectSeat that selected seatCode
JustSelected(seatCode) ==
    /\ last.op = "SeatManager.selectSeat" /\ last.ok
    /\ last.selected = {seatCode}
    /\ Len(run.snaps) = 1 /\ run.undos = 0

\* the seatCodes arrays callers pass to selectMultipleSeats
RECURSIVE SeqsUpTo(_, _)
SeqsUpTo(S, n) ==
    IF n = 0 THEN {<<>>}
    ELSE LET shorter == SeqsUpTo(S, n - 1)
         IN  shorter \cup {Append(q, x) : q \in {t \in shorter : Len(t) = n - 1}, x \in S}

Batches == SeqsUpTo(Codes, MaxBatch)

(***************************************************************************)
(* The calls.  Store(m, inv) writes the manager's and invoker's fields; the *)
(* seat availability service is another object and is left alone.          *)
(***************************************************************************)
Store(m, inv) ==
    /\ UNCHANGED <<seatData, bookingVars, facadeVars, proxyVars, notifierVars, sessionVars>>
    /\ seats' = m.seats
    /\ selectedSeats' = m.selectedSeats
    /\ undoStack' = inv.undoStack
    /\ redoStack' = inv.redoStack
    /\ maxHistorySize' = inv.maxHistorySize

\* SeatSelectionController.initializeForShowtime(ShowtimeId, Rows, SeatsPerRow)
InitializeForShowtime ==
    \E booked \in SUBSET GridCodes(Rows, SeatsPerRow) :
        /\ Store(InitializeSeats(Manager, ShowtimeId, Rows, SeatsPerRow, BasePrice, booked),
                 ClearHistory(Invoker))
        /\ last' = Called("initializeForShowtime", TRUE)
        /\ run' = NoRun

\* SeatSelectionController.selectSeat(seatCode)
ControllerSelectSeat(seatCode) ==
    LET r == ExecuteCommand(Invoker, NewSelectSeatCommand(seatCode), Manager)
    IN  /\ Store(r.m, r.inv)
        /\ last' = Called("selectSeat", r.ok)
        /\ run' = RunAfterSelectCommand(r.ok)

\* SeatSelectionController.deselectSeat(seatCode)
ControllerDeselectSeat(seatCode) ==
    LET r == ExecuteCommand(Invoker, NewDeselectSeatCommand(seatCode), Manager)
    IN  /\ Store(r.m, r.inv)
        /\ last' = Called("deselectSeat", r.ok)
        /\ run' = NoRun

\* SeatSelectionController.selectMultipleSeats(seatCodes)
ControllerSelectMultipleSeats(seatCodes) ==
    LET r == ExecuteCommand(Invoker, NewSelectMultipleSeatsCommand(seatCodes), Manager)
    IN  /\ Store(r.m, r.inv)
        /\ last' = Called("selectMultipleSeats", r.ok)
        /\ run' = RunAfterSelectCommand(r.ok)

\* a call on the invoker itself: its name, its result and, for
\* executeCommand, the id of the command object and whether the invoker held
\* that object on a stack
InvokerCalled(op, args, ok) ==
    [op |-> op, ok |-> ok, selected |-> {}, hist |-> <<0, 0>>, pre |-> {}, args |-> args]

(***************************************************************************)
(* Two command histories (SeatSelectionInvoker 1 and 2) whose commands are *)
(* built on one SeatManager.  Invoker 1 is undoStack, redoStack; invoker 2 *)
(* is otherUndoStack, otherRedoStack.  Each call runs to completion.       *)
(***************************************************************************)
Sessions == {1, 2}

SessionInvoker(session) ==
    IF session = 1 THEN Invoker
    ELSE [undoStack |-> otherUndoStack, redoStack |-> otherRedoStack,
          maxHistorySize |-> maxHistorySize]

\* the history through which each seat is selected after a call of session
\* that took the seat map from before to after
SelectedThroughAfter(session, before, after) ==
    [c \in Codes |->
        IF c \notin DOMAIN after \/ after[c].status # SELECTED THEN 0
        ELSE IF c \in DOMAIN before /\ before[c].status = SELECTED THEN selectedThrough[c]
        ELSE session]

SessionStore(session, r, op) ==
    /\ seats' = r.m.seats
    /\ selectedSeats' = r.m.selectedSeats
    /\ IF session = 1
       THEN /\ undoStack' = r.inv.undoStack
            /\ redoStack' = r.inv.redoStack
            /\ UNCHANGED <<otherUndoStack, otherRedoStack>>
       ELSE /\ otherUndoStack' = r.inv.undoStack
            /\ otherRedoStack' = r.inv.redoStack
            /\ UNCHANGED <<undoStack, redoStack>>
    /\ selectedThrough' = SelectedThroughAfter(session, seats, r.m.seats)
    /\ UNCHANGED <<maxHistorySize, seatData, bookingVars, facadeVars, proxyVars,
                   notifierVars>>
    /\ last' = InvokerCalled(op, <<session>>, r.ok)
    /\ run' = NoRun

\* invoker.executeCommand(new SelectSeatCommand(seatManager, seatCode))
SessionSelectSeat(session, seatCode) ==
    SessionStore(session,
                 ExecuteCommand(SessionInvoker(session), NewSelectSeatCommand(seatCode),
                                Manager),
                 "session.selectSeat")

\* invoker.executeCommand(new DeselectSeatCommand(seatManager, seatCode))
SessionDeselectSeat(session, seatCode) ==
    SessionStore(session,
                 ExecuteCommand(SessionInvoker(session), NewDeselectSeatCommand(seatCode),
                                Manager),
                 "session.deselectSeat")

\* invoker.undo()
SessionUndo(session) ==
    SessionStore(session, InvokerUndo(SessionInvoker(session), Manager), "session.undo")

\* invoker.redo()
SessionRedo(session) ==
    SessionStore(session, InvokerRedo(SessionInvoker(session), Manager), "session.redo")

\* the object ids of the commands on the stacks of an invoker
ObjectIds(inv) ==
    {inv.undoStack[i].id : i \in 1 .. Len(inv.undoStack)}
        \cup {inv.redoStack[i].id : i \in 1 .. Len(inv.redoStack)}

\* a command object made by the caller of the invoker: it is none of the
\* objects the invoker holds
NewCommandObject(cmd, inv) ==
    [kind |-> cmd.kind, seatCodes |-> cmd.seatCodes,
     successfullyCodes |-> cmd.successfullyCodes, executed |-> cmd.executed,
     timestamp |-> cmd.timestamp,
     id |-> CHOOSE n \in 1 .. (Cardinality(ObjectIds(inv)) + 1) : n \notin ObjectIds(inv)]

\* the seat codes of the commands handed to the invoker
InvokerCodes == {SeatCode("A", 1), SeatCode("B", 1)}

\* SeatSelectionInvoker.executeCommand(command)
InvokerExecuteCommand(command) ==
    LET r == ExecuteCommand(Invoker, command, Manager)
    IN  /\ Store(r.m, r.inv)
        /\ last' = InvokerCalled("executeCommand",
                                  <<command.id, command.id \in ObjectIds(Invoker)>>, r.ok)
        /\ run' = NoRun

\* SeatSelectionInvoker.undo()
InvokerCallUndo ==
    LET r == InvokerUndo(Invoker, Manager)
    IN  /\ Store(r.m, r.inv)
        /\ last' = InvokerCalled("SeatSelectionInvoker.undo", <<>>, r.ok)
        /\ run' = NoRun

\* SeatSelectionInvoker.redo()
InvokerCallRedo ==
    LET r == InvokerRedo(Invoker, Manager)
    IN  /\ Store(r.m, r.inv)
        /\ last' = InvokerCalled("SeatSelectionInvoker.redo", <<>>, r.ok)
        /\ run' = NoRun

\* SeatSelectionController.undo()
ControllerUndo ==
    LET r == InvokerUndo(Invoker, Manager)
    IN  /\ Store(r.m, r.inv)
        /\ last' = Called("undo", r.ok)
        /\ run' = RunAfterUndo

\* SeatSelectionController.redo()
ControllerRedo ==
    LET r == InvokerRedo(Invoker, Manager)
    IN  /\ Store(r.m, r.inv)
        /\ last' = Called("redo", r.ok)
        /\ run' = NoRun

\* SeatSelectionController.confirmBooking() = SeatManager.confirmBooking()
ControllerConfirmBooking ==
    LET r == ConfirmBooking(Manager)
    IN  /\ Store(r.m, Invoker)
        /\ last' = Called("confirmBooking", r.ok)
        /\ run' = NoRun

\* SeatManager.selectSeat(seatCode) called on a registry used on its own
ManagerSelectSeat(seatCode) ==
    LET r == SelectSeat(Manager, seatCode)
    IN  /\ Store(r.m, Invoker)
        /\ last' = Called("SeatManager.selectSeat", r.ok)
        /\ run' = IF r.ok THEN [snaps |-> <<seats>>, undos |-> 0] ELSE NoRun

\* SeatManager.deselectSeat(seatCode) called on a registry used on its own
ManagerDeselectSeat(seatCode) ==
    LET r == DeselectSeat(Manager, seatCode)
    IN  /\ Store(r.m, Invoker)
        /\ last' = Called("SeatManager.deselectSeat", r.ok)
        /\ run' = IF r.ok /\ JustSelected(seatCode)
                  THEN [run EXCEPT !.undos = 1] ELSE NoRun

\* SeatManager.initializeSeats(ShowtimeId, Rows, SeatsPerRow, BasePrice) called
\* on a registry used on its own
ManagerInitializeSeats ==
    \E booked \in SUBSET GridCodes(Rows, SeatsPerRow) :
        /\ Store(InitializeSeats(Manager, ShowtimeId, Rows, SeatsPerRow, BasePrice, booked),
                 Invoker)
        /\ last' = Called("SeatManager.initializeSeats", TRUE)
        /\ run' = NoRun

\* SeatManager.confirmBooking() called on a registry used on its own
ManagerConfirmBooking ==
    LET r == ConfirmBooking(Manager)
    IN  /\ Store(r.m, Invoker)
        /\ last' = Called("SeatManager.confirmBooking", r.ok)
        /\ run' = NoRun

\* the outcomes of Math.random() in a call on the service: they matter only
\* when the call initializes the showtime
Outcomes(showtimeId) ==
    IF showtimeId \in DOMAIN seatData THEN {{}} ELSE SUBSET GridCodes(Rows, SeatsPerRow)

ServiceStore(data) ==
    /\ seatData' = data
    /\ UNCHANGED <<seatVars, bookingVars, facadeVars, proxyVars, notifierVars>>
    /\ run' = NoRun

\* RealSeatAvailabilityService.selectSeat(showtimeId, seatCode)
ServiceSelectSeat(showtimeId, seatCode) ==
    \E booked \in Outcomes(showtimeId) :
        LET r == RealSelectSeat(seatData, showtimeId, seatCode, booked)
        IN  /\ ServiceStore(r.data)
            /\ last' = CalledWith("RealService.selectSeat", <<showtimeId, seatCode>>, r.ok)

\* RealSeatAvailabilityService.deselectSeat(showtimeId, seatCode)
ServiceDeselectSeat(showtimeId, seatCode) ==
    \E booked \in Outcomes(showtimeId) :
        LET r == RealDeselectSeat(seatData, showtimeId, seatCode, booked)
        IN  /\ ServiceStore(r.data)
            /\ last' = CalledWith("RealService.deselectSeat", <<showtimeId, seatCode>>, r.ok)

\* RealSeatAvailabilityService.confirmBooking(showtimeId, seatCodes)
ServiceConfirmBooking(showtimeId, seatCodes) ==
    \E booked \in Outcomes(showtimeId) :
        LET r == RealConfirmBooking(seatData, showtimeId, seatCodes, booked)
        IN  /\ ServiceStore(r.data)
            /\ last' = CalledWith("RealService.confirmBooking", <<showtimeId, seatCodes>>, r.ok)

(***************************************************************************)
(* The calls on a BookingContext.  The seat registry, the command history  *)
(* and the seat availability service are other objects and are left alone. *)
(***************************************************************************)
\* the seat codes and prices callers pass to addSeat
BookingSeatCodes == {"A1", "A2"}
Prices == {0 - BasePrice, 0, BasePrice}
\* the amounts callers pass to pay
Amounts == {0, BasePrice - 10000, BasePrice, BasePrice + 1, 2 * BasePrice}

BookingStore(ctx, refunded) ==
    /\ booking' = ctx
    /\ refundAmount' = refunded
    /\ UNCHANGED <<seatVars, seatData, facadeVars, proxyVars, notifierVars>>
    /\ run' = NoRun

\* BookingContext.addSeat(seatCode, price)
BookingAddSeat(seatCode, price) ==
    /\ CanModify(booking.state) => Len(booking.seats) < MaxSeats
    /\ BookingStore(AddSeat(booking, seatCode, price), Null)
    /\ last' = CalledWith("addSeat", <<seatCode, price>>, TRUE)

\* BookingContext.proceedToPayment()
BookingProceedToPayment ==
    /\ BookingStore(ProceedToPayment(booking), Null)
    /\ last' = Called("proceedToPayment", TRUE)

\* BookingContext.pay(amount)
BookingPay(amount) ==
    /\ BookingStore(Pay(booking, amount), Null)
    /\ last' = CalledWith("pay", <<amount>>, TRUE)

\* BookingContext.confirm()
BookingConfirm ==
    /\ BookingStore(Confirm(booking), Null)
    /\ last' = Called("confirm", TRUE)

\* BookingContext.complete()
BookingComplete ==
    /\ BookingStore(Complete(booking), Null)
    /\ last' = Called("complete", TRUE)

\* BookingContext.cancel()
BookingCancel ==
    /\ BookingStore(Cancel(booking), Null)
    /\ last' = Called("cancel", TRUE)

\* BookingContext.refund()
BookingRefund ==
    LET r == Refund(booking)
    IN  /\ BookingStore(r.ctx, r.refundAmount)
        /\ last' = Called("refund", TRUE)

\* CinemaBookingService.completeBooking(user, showtimeId, showtime, seatCodes,
\* ticketType, paymentMethod)
FacadeCompleteBooking(showtimeId, seatCodes) ==
    \E isPast \in BOOLEAN, isSuccess \in BOOLEAN :
        LET r == CompleteBooking(seatService, transactions, showtimeId, seatCodes,
                                 isPast, isSuccess)
        IN  /\ Len(transactions) < MaxPayments
            /\ seatService' = r.svc
            /\ transactions' = r.transactions
            /\ bookingResult' = [success |-> r.success, message |-> r.message]
            /\ UNCHANGED <<seatVars, seatData, bookingVars, proxyVars, notifierVars>>
            /\ last' = CalledWith("completeBooking", <<showtimeId, seatCodes, isPast>>,
                                  r.success)
            /\ run' = NoRun

(***************************************************************************)
(* The calls on a SeatAvailabilityProxy, for the showtime ShowtimeId.  A    *)
(* call that invalidates the cache records in last.pre the keys the cache  *)
(* held when it was made, getAvailableSeats the keys whose entries had not *)
(* expired.                                                                *)
(***************************************************************************)
Proxy == [cache |-> cache, accessLog |-> accessLog, currentUser |-> currentUser,
          accessLevel |-> accessLevel]

\* writes the fields of the proxy and of its real service, and what the call
\* returned or threw
ProxyStore(r) ==
    /\ cache' = r.px.cache
    /\ accessLog' = r.px.accessLog
    /\ currentUser' = r.px.currentUser
    /\ accessLevel' = r.px.accessLevel
    /\ seatData' = r.data
    /\ returned' = r.returned
    /\ error' = r.error
    /\ UNCHANGED <<seatVars, bookingVars, facadeVars, notifierVars>>
    /\ run' = NoRun

\* setCurrentUser(user)
ProxyCallSetCurrentUser(user) ==
    /\ ProxyStore(Returned(SetCurrentUser(Proxy, user), seatData, Null))
    /\ last' = CalledWith("Proxy.setCurrentUser", <<user>>, TRUE)

\* getSeats(ShowtimeId)
ProxyCallGetSeats ==
    \E expired \in BOOLEAN, booked \in Outcomes(ShowtimeId) :
        /\ ProxyStore(ProxyGetSeats(Proxy, seatData, ShowtimeId, expired, booked))
        /\ last' = CalledWith("Proxy.getSeats", <<ShowtimeId>>, error' = Null)

\* getAvailableSeats(ShowtimeId)
ProxyCallGetAvailableSeats ==
    \E expired \in BOOLEAN, booked \in Outcomes(ShowtimeId) :
        /\ ProxyStore(ProxyGetAvailableSeats(Proxy, seatData, ShowtimeId, expired, booked))
        /\ last' = [CalledWith("Proxy.getAvailableSeats", <<ShowtimeId>>, error' = Null)
                       EXCEPT !.pre = IF expired THEN {} ELSE DOMAIN cache]

\* getVIPSeats(ShowtimeId)
ProxyCallGetVIPSeats ==
    \E expired \in BOOLEAN, booked \in Outcomes(ShowtimeId) :
        /\ ProxyStore(ProxyGetVIPSeats(Proxy, seatData, ShowtimeId, expired, booked))
        /\ last' = CalledWith("Proxy.getVIPSeats", <<ShowtimeId>>, error' = Null)

\* isSeatAvailable(ShowtimeId, seatCode)
ProxyCallIsSeatAvailable(seatCode) ==
    \E booked \in Outcomes(ShowtimeId) :
        LET r == ProxyIsSeatAvailable(Proxy, seatData, ShowtimeId, seatCode, booked)
        IN  /\ ProxyStore(r)
            /\ last' = CalledWith("Proxy.isSeatAvailable", <<ShowtimeId, seatCode>>,
                                  r.error = Null /\ r.returned)

\* selectSeat(ShowtimeId, seatCode)
ProxyCallSelectSeat(seatCode) ==
    \E booked \in Outcomes(ShowtimeId) :
        LET r == ProxySelectSeat(Proxy, seatData, ShowtimeId, seatCode, booked)
        IN  /\ ProxyStore(r)
            /\ last' = [CalledWith("Proxy.selectSeat", <<ShowtimeId, seatCode>>,
                                   r.error = Null /\ r.returned)
                           EXCEPT !.pre = DOMAIN cache]

\* deselectSeat(ShowtimeId, seatCode)
ProxyCallDeselectSeat(seatCode) ==
    \E booked \in Outcomes(ShowtimeId) :
        LET r == ProxyDeselectSeat(Proxy, seatData, ShowtimeId, seatCode, booked)
        IN  /\ ProxyStore(r)
            /\ last' = [CalledWith("Proxy.deselectSeat", <<ShowtimeId, seatCode>>,
                                   r.error = Null /\ r.returned)
                           EXCEPT !.pre = DOMAIN cache]

\* confirmBooking(ShowtimeId, seatCodes)
ProxyCallConfirmBooking(seatCodes) ==
    \E booked \in Outcomes(ShowtimeId) :
        LET r == ProxyConfirmBooking(Proxy, seatData, ShowtimeId, seatCodes, booked)
        IN  /\ ProxyStore(r)
            /\ last' = [CalledWith("Proxy.confirmBooking", <<ShowtimeId, seatCodes>>,
                                   r.error = Null /\ r.returned)
                           EXCEPT !.pre = DOMAIN cache]

\* clearCache()
ProxyCallClearCache ==
    /\ ProxyStore(Returned(ClearCache(Proxy), seatData, Null))
    /\ last' = Called("Proxy.clearCache", TRUE)

(***************************************************************************)
(* The calls on a BookingNotifier.  attachedObservers follows the calls:   *)
(* it holds the observers that attach registered and that have not been    *)
(* handed to detach since.  A notify records in last.pre the observers     *)
(* whose update threw, in last.ok that notify itself returned.             *)
(***************************************************************************)
Notifier == [observers |-> observers, eventLog |-> eventLog]

\* the event types of the events handed to notify
NotifiedTypes == {"BOOKING_CREATED", "REMINDER_1_HOUR"}

BookingEvent(eventType) == [eventType |-> eventType, bookingId |-> "BKG-12345"]

NotifierStore(n) ==
    /\ observers' = n.observers
    /\ eventLog' = n.eventLog
    /\ UNCHANGED <<seatVars, seatData, bookingVars, facadeVars, proxyVars>>
    /\ run' = NoRun

\* attach(observer)
NotifierAttach(observer) ==
    /\ NotifierStore(Attach(Notifier, observer))
    /\ attachedObservers' = IF ObserversHas(Notifier, ObserverName[observer])
                            THEN attachedObservers
                            ELSE attachedObservers \cup {observer}
    /\ UNCHANGED <<updated, notifiedCount>>
    /\ last' = CalledWith("Notifier.attach", <<observer>>, TRUE)

\* detach(observer)
NotifierDetach(observer) ==
    /\ NotifierStore(Detach(Notifier, observer))
    /\ attachedObservers' = attachedObservers \ {observer}
    /\ UNCHANGED <<updated, notifiedCount>>
    /\ last' = CalledWith("Notifier.detach", <<observer>>, TRUE)

\* notify(event)
NotifierNotify(eventType) ==
    \E throwers \in SUBSET {observers[i].observer : i \in 1 .. Len(observers)} :
        LET r == Notify(Notifier, BookingEvent(eventType), throwers)
        IN  /\ NotifierStore(r.notifier)
            /\ updated' = r.updated
            /\ notifiedCount' = r.notifiedCount
            /\ UNCHANGED attachedObservers
            /\ last' = [CalledWith("Notifier.notify", <<BookingEvent(eventType)>>, ~r.threw)
                           EXCEPT !.hist = <<Len(eventLog), Len(observers)>>,
                                  !.pre = throwers]

\* new SeatManager(), new SeatSelectionInvoker(maxHistorySize),
\* new RealSeatAvailabilityService(), new BookingContext(customerName, movieTitle),
\* new CinemaBookingService(), new SeatAvailabilityProxy(), new BookingNotifier()
Init ==
    /\ seats = <<>>
    /\ selectedSeats = {}
    /\ undoStack = <<>>
    /\ redoStack = <<>>
    /\ maxHistorySize = MaxHistory
    /\ seatData = <<>>
    /\ booking = NewBookingContext
    /\ refundAmount = Null
    /\ seatService = NewSeatService
    /\ transactions = <<>>
    /\ bookingResult = [success |-> FALSE, message |-> Null]
    /\ cache = NewProxy.cache
    /\ accessLog = NewProxy.accessLog
    /\ currentUser = NewProxy.currentUser
    /\ accessLevel = NewProxy.accessLevel
    /\ returned = Null
    /\ error = Null
    /\ observers = NewNotifier.observers
    /\ eventLog = NewNotifier.eventLog
    /\ updated = <<>>
    /\ notifiedCount = 0
    /\ attachedObservers = {}
    /\ otherUndoStack = <<>>
    /\ otherRedoStack = <<>>
    /\ selectedThrough = [c \in Codes |-> 0]
    /\ last = [op |-> "new", ok |-> TRUE, selected |-> {}, hist |-> <<0, 0>>, pre |-> {},
               args |-> <<>>]
    /\ run = NoRun

\* a SeatSelectionController: the registry is reached through it alone
Next ==
    \/ InitializeForShowtime
    \/ \E seatCode \in Codes : ControllerSelectSeat(seatCode)
    \/ \E seatCode \in Codes : ControllerDeselectSeat(seatCode)
    \/ \E seatCodes \in Batches : ControllerSelectMultipleSeats(seatCodes)
    \/ ControllerUndo
    \/ ControllerRedo
    \/ ControllerConfirmBooking

Spec == Init /\ [][Next]_vars

\* a controller whose seats are mutated through its history only: one
\* initializeForShowtime, then selectSeat, deselectSeat, selectMultipleSeats,
\* undo and redo
FirstInitializeForShowtime ==
    /\ seats = <<>>
    /\ InitializeForShowtime

NextHistory ==
    \/ FirstInitializeForShowtime
    \/ \E seatCode \in Codes : ControllerSelectSeat(seatCode)
    \/ \E seatCode \in Codes : ControllerDeselectSeat(seatCode)
    \/ \E seatCodes \in Batches : ControllerSelectMultipleSeats(seatCodes)
    \/ ControllerUndo
    \/ ControllerRedo

SpecHistory == Init /\ [][NextHistory]_vars

\* a SeatSelectionInvoker handed command objects: new ones, and ones it
\* already holds on a stack
NextInvoker ==
    \/ FirstInitializeForShowtime
    \/ \E seatCode \in InvokerCodes :
          InvokerExecuteCommand(NewCommandObject(NewSelectSeatCommand(seatCode), Invoker))
    \/ \E seatCode \in InvokerCodes :
          InvokerExecuteCommand(NewCommandObject(NewDeselectSeatCommand(seatCode), Invoker))
    \/ \E seatCodes \in SeqsUpTo(InvokerCodes, MaxBatch) :
          InvokerExecuteCommand(NewCommandObject(NewSelectMultipleSeatsCommand(seatCodes),
                                                 Invoker))
    \/ \E command \in Range(undoStack) \cup Range(redoStack) :
          InvokerExecuteCommand(command)
    \/ InvokerCallUndo
    \/ InvokerCallRedo
    \/ ControllerConfirmBooking

SpecInvoker == Init /\ [][NextInvoker]_vars

\* two SeatSelectionInvokers on one SeatManager
NextSessions ==
    \/ FirstInitializeForShowtime
    \/ \E session \in Sessions, seatCode \in InvokerCodes :
          SessionSelectSeat(session, seatCode)
    \/ \E session \in Sessions, seatCode \in InvokerCodes :
          SessionDeselectSeat(session, seatCode)
    \/ \E session \in Sessions : SessionUndo(session)
    \/ \E session \in Sessions : SessionRedo(session)

SpecSessions == Init /\ [][NextSessions]_vars

\* a SeatManager used on its own, without command history
NextManager ==
    \/ ManagerInitializeSeats
    \/ \E seatCode \in Codes : ManagerSelectSeat(seatCode)
    \/ \E seatCode \in Codes : ManagerDeselectSeat(seatCode)
    \/ ManagerConfirmBooking

SpecManager == Init /\ [][NextManager]_vars

\* a RealSeatAvailabilityService
NextService ==
    \/ \E showtimeId \in Showtimes, seatCode \in Codes :
          ServiceSelectSeat(showtimeId, seatCode)
    \/ \E showtimeId \in Showtimes, seatCode \in Codes :
          ServiceDeselectSeat(showtimeId, seatCode)
    \/ \E showtimeId \in Showtimes, seatCodes \in Batches :
          ServiceConfirmBooking(showtimeId, seatCodes)

SpecService == Init /\ [][NextService]_vars

\* a BookingContext
NextBooking ==
    \/ \E seatCode \in BookingSeatCodes, price \in Prices : BookingAddSeat(seatCode, price)
    \/ BookingProceedToPayment
    \/ \E amount \in Amounts : BookingPay(amount)
    \/ BookingConfirm
    \/ BookingComplete
    \/ BookingCancel
    \/ BookingRefund

SpecBooking == Init /\ [][NextBooking]_vars

\* a CinemaBookingService
NextFacade ==
    \E showtimeId \in Showtimes, seatCodes \in Batches :
       FacadeCompleteBooking(showtimeId, seatCodes)

SpecFacade == Init /\ [][NextFacade]_vars

\* a SeatAvailabilityProxy
NextProxy ==
    \/ \E user \in Users \cup {Null} : ProxyCallSetCurrentUser(user)
    \/ ProxyCallGetSeats
    \/ ProxyCallGetAvailableSeats
    \/ ProxyCallGetVIPSeats
    \/ \E seatCode \in Codes : ProxyCallIsSeatAvailable(seatCode)
    \/ \E seatCode \in Codes : ProxyCallSelectSeat(seatCode)
    \/ \E seatCode \in Codes : ProxyCallDeselectSeat(seatCode)
    \/ \E seatCodes \in SeqsUpTo(Codes, MaxProxyBatch) : ProxyCallConfirmBooking(seatCodes)
    \/ ProxyCallClearCache

SpecProxy == Init /\ [][NextProxy]_vars

\* a BookingNotifier
NextNotifier ==
    \/ \E observer \in ObserverObjects : NotifierAttach(observer)
    \/ \E observer \in ObserverObjects : NotifierDetach(observer)
    \/ \E eventType \in NotifiedTypes : NotifierNotify(eventType)

SpecNotifier == Init /\ [][NextNotifier]_vars

(***************************************************************************)
(* Properties.                                                             *)
(***************************************************************************)
StatusOf(seatMap, c) == seatMap[c].status
ExecuteCalls == {"selectSeat", "deselectSeat", "selectMultipleSeats"}
\* the seat map before the last run.undos select commands of the run
BeforeUndone == run.snaps[Len(run.snaps) - run.undos + 1]

C2_RedoRestoresUndone ==
    [][(last.op = "undo" /\ last.ok /\ last'.op = "redo")
          => (last'.ok /\ selectedSeats' = last.pre)]_vars

C4_BatchUndoneAsUnit ==
    [][(last.op = "selectMultipleSeats" /\ last'.op = "undo")
          => \A c \in last.selected : StatusOf(seats', c) # SELECTED]_vars

\* C5: a selectMultipleSeats that selected some but not all of its seats leaves
\* its command on top of the undo stack, recording the seats it selected.
C5_PartialBatchPushed ==
    (last.op = "selectMultipleSeats" /\ ~last.ok /\ last.selected # {})
       => /\ undoStack # <<>>
          /\ Top(undoStack).kind = "SelectMultipleSeatsCommand"
          /\ Range(Top(undoStack).successfullyCodes) = last.selected

\* C6: undo on an empty undo stack, and redo on an empty redo stack, return
\* false and change no seat, no tracked selection and neither stack.
C6_EmptyUndoRedoNoOp ==
    [][((last'.op = "undo" /\ undoStack = <<>>) \/ (last'.op = "redo" /\ redoStack = <<>>))
          => (~last'.ok /\ UNCHANGED <<seats, selectedSeats, undoStack, redoStack>>)]_vars

\* undo was called on an empty undo stack while a seat was SELECTED
C6_Witness ==
    /\ last.op = "undo" /\ ~last.ok
    /\ last.hist[1] = 0
    /\ \E c \in DOMAIN seats : StatusOf(seats, c) = SELECTED

\* C7: SeatManager.selectSeat returns true exactly when the seat exists and is
\* AVAILABLE, and then makes that one seat SELECTED; deselectSeat returns true
\* exactly when the seat exists and is SELECTED, and then makes it AVAILABLE; a
\* call that returns false changes no seat and not the selected set.
OnlyStatusOf(code, status) ==
    /\ DOMAIN seats' = DOMAIN seats
    /\ \A c \in DOMAIN seats :
          seats'[c] = IF c = code THEN [seats[c] EXCEPT !.status = status] ELSE seats[c]

C7_SelectDeselectGuards ==
    [][\A code \in Codes :
          /\ ManagerSelectSeat(code) =>
                /\ last'.ok <=> (code \in DOMAIN seats /\ StatusOf(seats, code) = AVAILABLE)
                /\ last'.ok => (OnlyStatusOf(code, SELECTED)
                                   /\ selectedSeats' = selectedSeats \cup {code})
                /\ ~last'.ok => UNCHANGED <<seats, selectedSeats>>
          /\ ManagerDeselectSeat(code) =>
                /\ last'.ok <=> (code \in DOMAIN seats /\ StatusOf(seats, code) = SELECTED)
                /\ last'.ok => (OnlyStatusOf(code, AVAILABLE)
                                   /\ selectedSeats' = selectedSeats \ {code})
                /\ ~last'.ok => UNCHANGED <<seats, selectedSeats>>]_vars

\* selectSeat was refused on an initialized registry that holds a SELECTED seat
C7_Witness ==
    /\ last.op = "SeatManager.selectSeat" /\ ~last.ok
    /\ \E c \in DOMAIN seats : StatusOf(seats, c) = SELECTED
    /\ \E c \in DOMAIN seats : StatusOf(seats, c) = BOOKED

\* C8: on a freshly initialized registry selectSeat("A1") returns true, a second
\* selectSeat("A1") returns false, deselectSeat("A1") then returns true and a
\* second deselectSeat("A1") returns false.
A1 == SeatCode("A", 1)

C8_FreshScenario ==
    [][/\ (last.op = "initializeForShowtime" /\ ControllerSelectSeat(A1)) => last'.ok
       /\ (last.op = "selectSeat" /\ last.ok /\ last.selected = {A1}
             /\ ControllerSelectSeat(A1)) => ~last'.ok
       /\ (last.op = "selectSeat" /\ last.ok /\ last.selected = {A1}
             /\ ControllerDeselectSeat(A1)) => last'.ok
       /\ (last.op = "deselectSeat" /\ last.ok /\ StatusOf(seats, A1) = AVAILABLE
             /\ ControllerDeselectSeat(A1)) => ~last'.ok]_vars

\* C9: within one initialization, a seat's status changes only by
\* AVAILABLE->SELECTED, SELECTED->AVAILABLE or SELECTED->BOOKED.
AllowedStatusChanges ==
    {<<AVAILABLE, SELECTED>>, <<SELECTED, AVAILABLE>>, <<SELECTED, BOOKED>>}

C9_StatusTransitions ==
    [][last'.op # "initializeForShowtime"
          => \A c \in (DOMAIN seats) \cap (DOMAIN seats') :
                \/ StatusOf(seats', c) = StatusOf(seats, c)
                \/ <<StatusOf(seats, c), StatusOf(seats', c)>> \in AllowedStatusChanges]_vars

\* C10: SeatManager.confirmBooking returns true only if every seat it is to
\* confirm (the tracked selection) is SELECTED, and then all of them are
\* BOOKED; when it returns false no seat has changed.
C10_ConfirmAllOrNothing ==
    [][last'.op = "confirmBooking"
          => /\ last'.ok => \A c \in selectedSeats :
                               /\ c \in DOMAIN seats
                               /\ StatusOf(seats, c) = SELECTED
                               /\ StatusOf(seats', c) = BOOKED
             /\ ~last'.ok => seats' = seats]_vars

\* C10 (RealSeatAvailabilityService.confirmBooking): the call returns true
\* exactly when every given code is a SELECTED seat of the showtime, and then
\* all of them are BOOKED; when it returns false no seat status has changed.
ServiceStatus(data, showtimeId, seatCode) ==
    LET matrix == data[showtimeId]
        cells == {p \in (1 .. Len(matrix)) \X (1 .. SeatsPerRow) :
                     matrix[p[1]][p[2]].row \o ToString(matrix[p[1]][p[2]].number) = seatCode}
    IN  IF cells = {} THEN Null
        ELSE LET p == CHOOSE q \in cells : TRUE IN matrix[p[1]][p[2]].status

C10_ServiceConfirmAllOrNothing ==
    [][last'.op = "RealService.confirmBooking" =>
          LET showtimeId == last'.args[1]
              seatCodes == last'.args[2]
          IN  /\ last'.ok <=>
                    \A c \in Range(seatCodes) :
                       /\ showtimeId \in DOMAIN seatData
                       /\ ServiceStatus(seatData, showtimeId, c) = SELECTED
              /\ last'.ok =>
                    \A c \in Range(seatCodes) :
                       ServiceStatus(seatData', showtimeId, c) = BOOKED
              /\ ~last'.ok =>
                    \A st \in DOMAIN seatData : seatData'[st] = seatData[st]]_vars

\* a confirmBooking of two seats of a showtime succeeded
C10_ServiceWitness ==
    /\ last.op = "RealService.confirmBooking" /\ last.ok
    /\ \E st \in DOMAIN seatData :
          Cardinality({c \in Codes : ServiceStatus(seatData, st, c) = BOOKED}) >= 2

\* C11: the undo stack never holds more than maxHistorySize commands, and a
\* successful executeCommand leaves on it the latest maxHistorySize commands in
\* execution order: the executed command on top of what the stack held, the
\* oldest command dropped when the stack was full.
C11_UndoStackBounded ==
    /\ [](Len(undoStack) <= maxHistorySize)
    /\ [][(last'.op \in ExecuteCalls /\ last'.ok)
             => /\ undoStack' # <<>>
                /\ Top(undoStack').executed
                /\ Pop(undoStack') = KeepLast(undoStack, maxHistorySize - 1)]_vars

\* a command succeeded on a full undo stack whose oldest command was evicted
C11_Witness ==
    /\ last.op \in ExecuteCalls /\ last.ok
    /\ last.hist[1] = maxHistorySize
    /\ Len(undoStack) = maxHistorySize
    /\ undoStack[1] # Top(undoStack)

\* C12: selectMultipleSeats([]) returns true and changes no seat status, not
\* the undo stack and not the redo stack.
C12_EmptyBatchNoOp ==
    [][ControllerSelectMultipleSeats(<<>>)
          => (last'.ok /\ UNCHANGED <<seats, undoStack, redoStack>>)]_vars

\* C13: a SeatManager.deselectSeat that immediately follows the successful
\* selectSeat of the same seat returns true and leaves every seat (status,
\* price, type) as it was before the selectSeat, the seat itself AVAILABLE.
C13_SelectDeselectRoundTrip ==
    /\ [][\A code \in Codes :
             (JustSelected(code) /\ ManagerDeselectSeat(code))
                => (last'.ok /\ run'.undos = 1)]_vars
    /\ [](run.undos = 1 /\ last.op = "SeatManager.deselectSeat"
             => seats = run.snaps[1])

\* a VIP seat has been selected and deselected again while another seat is BOOKED
C13_Witness ==
    /\ run.undos = 1 /\ last.op = "SeatManager.deselectSeat" /\ last.ok
    /\ \E c \in DOMAIN seats :
          /\ seats[c].type = VIP /\ seats[c].status = AVAILABLE
          /\ seats[c].price = (BasePrice * 3) \div 2
          /\ \E d \in DOMAIN seats : d # c /\ seats[d].status = BOOKED

(***************************************************************************)
(* Properties of the booking lifecycle.                                    *)
(***************************************************************************)
BookingCalls ==
    {"addSeat", "proceedToPayment", "pay", "confirm", "complete", "cancel", "refund"}

\* C14: pay(amount) in Pending with amount < totalAmount leaves the state
\* Pending and paidAmount and transactionId unchanged; with amount >=
\* totalAmount the state becomes Paid and paidAmount becomes amount.
C14_PendingPay ==
    [][(last'.op = "pay" /\ booking.state = Pending) =>
          LET amount == last'.args[1]
          IN  /\ amount < booking.totalAmount
                    => /\ booking'.state = Pending
                       /\ booking'.paidAmount = booking.paidAmount
                       /\ booking'.transactionId = booking.transactionId
              /\ amount >= booking.totalAmount
                    => /\ booking'.state = Paid
                       /\ booking'.paidAmount = amount]_vars

\* a pay larger than a positive total moved the booking to Paid
C14_Witness ==
    /\ last.op = "pay" /\ booking.state = Paid
    /\ booking.totalAmount = BasePrice
    /\ booking.paidAmount = BasePrice + 1

\* C15: the state changes only by a transition of the lifecycle table, made by
\* the call the table names; cancel in Paid or Confirmed keeps the state.
LifecycleTable ==
    {<<Draft, "proceedToPayment", Pending>>,
     <<Draft, "cancel", Cancelled>>,
     <<Pending, "cancel", Cancelled>>,
     <<Pending, "pay", Paid>>,
     <<Paid, "confirm", Confirmed>>,
     <<Paid, "refund", Cancelled>>,
     <<Confirmed, "refund", Cancelled>>,
     <<Confirmed, "complete", Completed>>}

C15_LifecycleTransitions ==
    [][/\ booking'.state # booking.state
             => <<booking.state, last'.op, booking'.state>> \in LifecycleTable
       /\ (last'.op = "cancel" /\ booking.state \in {Paid, Confirmed})
             => booking'.state = booking.state]_vars

\* cancel was called on a paid booking
C15_Witness ==
    /\ last.op = "cancel" /\ booking.state = Paid
    /\ booking.paidAmount > 0

\* C16: a call that is illegal for the current state changes no field of the
\* booking: state, seats, totalAmount, paidAmount, transactionId, stateHistory.
LegalCalls ==
    {<<t[1], t[2]>> : t \in LifecycleTable} \cup {<<Draft, "addSeat">>}

C16_IllegalCallNoMutation ==
    [][(last'.op \in BookingCalls /\ <<booking.state, last'.op>> \notin LegalCalls)
          => booking' = booking]_vars

\* pay was called on a draft booking that holds a seat with a positive price
C16_Witness ==
    /\ last.op = "pay" /\ booking.state = Draft
    /\ booking.totalAmount > 0
    /\ last.args[1] >= booking.totalAmount

\* C17: in Completed and in Cancelled every call leaves the booking as it is.
C17_TerminalStatesAbsorbing ==
    [][booking.state \in {Completed, Cancelled} => booking' = booking]_vars

\* cancel was called on a completed booking
C17_Witness ==
    /\ last.op = "cancel" /\ booking.state = Completed
    /\ Len(booking.stateHistory) = 5

\* C18: addSeat in a state other than Draft changes neither totalAmount nor
\* the list of seats.
C18_AddSeatOutsideDraft ==
    [][(last'.op = "addSeat" /\ booking.state # Draft)
          => /\ booking'.totalAmount = booking.totalAmount
             /\ booking'.seats = booking.seats]_vars

\* addSeat with a positive price was called on a paid booking
C18_Witness ==
    /\ last.op = "addSeat" /\ booking.state = Paid
    /\ last.args[2] > 0

\* C19 (as claimed): refund in Confirmed announces exactly 80% of paidAmount,
\* refund in Paid exactly paidAmount.
C19_RefundExact ==
    [][last'.op = "refund" =>
          /\ booking.state = Confirmed => 5 * refundAmount' = 4 * booking.paidAmount
          /\ booking.state = Paid => refundAmount' = booking.paidAmount]_vars

\* C19 (amended): refund in Confirmed announces the integer nearest to 80% of
\* paidAmount, which is exactly 80% when paidAmount is a multiple of 5; refund
\* in Paid announces exactly paidAmount.
C19_RefundRounded ==
    [][last'.op = "refund" =>
          /\ booking.state = Confirmed =>
                /\ 5 * refundAmount' - 4 * booking.paidAmount \in -2 .. 2
                /\ booking.paidAmount % 5 = 0
                      => 5 * refundAmount' = 4 * booking.paidAmount
          /\ booking.state = Paid => refundAmount' = booking.paidAmount]_vars

\* a confirmed booking paid with an amount that is no multiple of 5 was refunded
C19_Witness ==
    /\ last.op = "refund" /\ booking.state = Cancelled
    /\ booking.stateHistory[Len(booking.stateHistory)].fromState = Confirmed
    /\ booking.paidAmount = BasePrice + 1
    /\ refundAmount = (4 * BasePrice) \div 5 + 1

\* C20: proceedToPayment in Draft moves the booking to Pending when it holds
\* at least one seat, and changes nothing when it holds none.
C20_ProceedNeedsSeat ==
    [][(last'.op = "proceedToPayment" /\ booking.state = Draft)
          => IF Len(booking.seats) >= 1
             THEN booking'.state = Pending
             ELSE booking' = booking]_vars

\* proceedToPayment moved a booking with one seat to Pending
C20_Witness ==
    /\ last.op = "proceedToPayment" /\ booking.state = Pending
    /\ Len(booking.seats) = 1

\* C21: an addSeat call in Draft never makes totalAmount smaller.
C21_TotalMonotonicInDraft ==
    [][(last'.op = "addSeat" /\ booking.state = Draft)
          => booking'.totalAmount >= booking.totalAmount]_vars

(***************************************************************************)
(* Properties of the command history: failures.                            *)
(***************************************************************************)
\* C27: an executeCommand whose command reports failure returns false and
\* leaves the undo stack and the redo stack as they were; the selectSeat of a
\* seat that is unknown or not AVAILABLE is such a call.
C27_FailedCommandDiscarded ==
    [][/\ (last'.op \in ExecuteCalls /\ ~last'.ok)
             => UNCHANGED <<undoStack, redoStack>>
       /\ (last'.op = "selectSeat" /\ last'.selected = {}) => ~last'.ok]_vars

\* a command failed while both stacks held a command
C27_Witness ==
    /\ last.op \in ExecuteCalls /\ ~last.ok
    /\ undoStack # <<>> /\ redoStack # <<>>
    /\ last.hist = <<Len(undoStack), Len(redoStack)>>

C29_OneLogEntryPerTransition ==
    [][IF booking'.state # booking.state
       THEN booking'.stateHistory =
               Append(booking.stateHistory,
                      [fromState |-> booking.state, toState |-> booking'.state])
       ELSE booking'.stateHistory = booking.stateHistory]_vars

\* confirm moved a paid booking on: the log holds four entries
C29_Witness ==
    /\ last.op = "confirm" /\ booking.state = Confirmed
    /\ Len(booking.stateHistory) = 4

\* C30: whenever the state is Completed the log is exactly Initial->Draft,
\* Draft->Pending, Pending->Paid, Paid->Confirmed, Confirmed->Completed.
FullProgression ==
    << [fromState |-> "Initial", toState |-> Draft],
       [fromState |-> Draft, toState |-> Pending],
       [fromState |-> Pending, toState |-> Paid],
       [fromState |-> Paid, toState |-> Confirmed],
       [fromState |-> Confirmed, toState |-> Completed] >>

C30_CompletedByFullProgression ==
    booking.state = Completed => booking.stateHistory = FullProgression

\* complete has just moved a confirmed booking to Completed
C30_Witness ==
    /\ last.op = "complete" /\ booking.state = Completed
    /\ booking.paidAmount >= booking.totalAmount

(***************************************************************************)
(* Properties of the facade.                                               *)
(***************************************************************************)
\* the status of the seat with this code in the facade's layout, or Null
LayoutStatus(showtimeId, seatCode) ==
    LET p == FindSeat(seatService.seatLayouts, showtimeId, seatCode)
    IN  IF p = Null THEN Null ELSE SeatAt(seatService.seatLayouts, showtimeId, p).status

\* C22: a completeBooking that follows a successful completeBooking for the
\* same showtime and the same seats (the showtime still in the future) returns
\* success = false with the message that a seat is not available, and the
\* seats are still BOOKED.
C22_SecondBookingFails ==
    [][(/\ last.op = "completeBooking" /\ last.ok
        /\ last'.op = "completeBooking" /\ last'.args = last.args)
          => /\ ~bookingResult'.success
             /\ \E c \in Range(last.args[2]) : bookingResult'.message = SeatNotAvailable(c)
             /\ \A c \in Range(last.args[2]) : LayoutStatus(last.args[1], c)' = BOOKED]_vars

(***************************************************************************)
(* SeatAvailabilityProxy                                                   *)
(***************************************************************************)
ProxyMutators == {"Proxy.selectSeat", "Proxy.deselectSeat", "Proxy.confirmBooking"}

\* C23: for a guest (no current user), selectSeat, deselectSeat and
\* confirmBooking on the proxy throw an 'Access denied' error and change
\* neither the real service's seats, nor the cache, nor the access log.
C23_GuestDenied ==
    [][(last'.op \in ProxyMutators /\ currentUser = Null)
          => /\ Includes(error', "Access denied")
             /\ UNCHANGED <<seatData, cache, accessLog>>]_vars

\* a guest was denied selectSeat while the cache and the log held entries
C23_Witness ==
    /\ last.op = "Proxy.selectSeat" /\ currentUser = Null
    /\ Includes(error, "Access denied: select seat requires MEMBER level")
    /\ cache # <<>> /\ accessLog # <<>> /\ ShowtimeId \in DOMAIN seatData

\* C24: after a permitted selectSeat, deselectSeat or confirmBooking through
\* the proxy for a showtime, the cache holds no entry whose key contains that
\* showtime's id, whether the call returned true or false.
C24_MutationInvalidatesCache ==
    [][(last'.op \in ProxyMutators /\ error' = Null)
          => \A key \in DOMAIN cache' : ~Includes(key, last'.args[1])]_vars

\* a permitted selectSeat returned false after both lists of the showtime
\* had been cached
C24_Witness ==
    /\ last.op = "Proxy.selectSeat" /\ error = Null /\ returned = FALSE
    /\ last.pre = {"seats-all-" \o ShowtimeId, "seats-available-" \o ShowtimeId}
    /\ cache = <<>>

(***************************************************************************)
(* BookingNotifier                                                         *)
(***************************************************************************)
\* how many times update was called on the observer by the last notify
UpdateCalls(observer) == Cardinality({i \in 1 .. Len(updated) : updated[i] = observer})

\* C25: notify(event) calls update exactly once on every attached observer
\* that subscribes to the event's type, and on no other observer (not on one
\* that does not subscribe, not on one that is not attached).
C25_NotifyCallsAttachedSubscribers ==
    [][last'.op = "Notifier.notify"
          => \A o \in ObserverObjects :
                UpdateCalls(o)' = IF /\ o \in attachedObservers
                                     /\ last'.args[1].eventType \in SubscribedEvents[o]
                                  THEN 1 ELSE 0]_vars

\* C26: every notify appends its event to the event log, subscribers or
\* not; the log never holds more than maxLogSize events, and it is the
\* oldest event that is dropped.
C26_EventLogged ==
    [][/\ Len(eventLog') <= MaxLogSize
       /\ last'.op = "Notifier.notify"
             => /\ eventLog'[Len(eventLog')] = last'.args[1]
                /\ IF Len(eventLog) < MaxLogSize
                   THEN SubSeq(eventLog', 1, Len(eventLog') - 1) = eventLog
                   ELSE SubSeq(eventLog', 1, Len(eventLog') - 1) = Tail(eventLog)]_vars

\* an event nobody subscribes to was logged on a full log, and an older,
\* different event is still in the log
C26_Witness ==
    /\ last.op = "Notifier.notify" /\ last.hist[1] = MaxLogSize
    /\ updated = <<>>
    /\ Len(eventLog) = MaxLogSize /\ eventLog[1] # eventLog[MaxLogSize]

\* C31: in every reachable state of the seat registry the tracked selected
\* set is exactly the set of seat codes whose status is SELECTED.
C31_SelectedSetMatchesStatus ==
    selectedSeats = {c \in DOMAIN seats : seats[c].status = SELECTED}

\* C32: when the seats are mutated through the controller's selectSeat,
\* deselectSeat, selectMultipleSeats, undo and redo only, undo returns true
\* whenever the undo stack is not empty.
C32_UndoSucceedsOnNonEmptyStack ==
    [][(last'.op = "undo" /\ undoStack # <<>>) => last'.ok]_vars

\* the seat codes a command on the undo stack has selected
SelectedBy(cmd) ==
    CASE cmd.kind = "SelectSeatCommand" -> Range(cmd.seatCodes)
      [] cmd.kind = "SelectMultipleSeatsCommand" -> Range(cmd.successfullyCodes)
      [] cmd.kind = "DeselectSeatCommand" -> {}

\* C33: whenever undo returns true, every seat the undone command had
\* selected is AVAILABLE afterwards, and the seat an undone deselect command
\* had deselected is SELECTED afterwards.
C33_UndoTookEffect ==
    [][(last'.op = "undo" /\ last'.ok)
          => LET cmd == Top(undoStack)
             IN  /\ \A c \in SelectedBy(cmd) : seats'[c].status = AVAILABLE
                 /\ cmd.kind = "DeselectSeatCommand"
                       => seats'[cmd.seatCodes[1]].status = SELECTED]_vars

\* the command objects on the two stacks, undo stack first
StackedCommands == undoStack \o redoStack

\* C34: for a non-negative maximum, the undo stack and the redo stack
\* together never hold more than maxHistorySize commands, and no command
\* object is on both stacks or twice on one stack.
C34_HistoryBoundedNoDuplicates ==
    /\ maxHistorySize >= 0 => Len(undoStack) + Len(redoStack) <= maxHistorySize
    /\ \A i, j \in 1 .. Len(StackedCommands) :
          i # j => StackedCommands[i].id # StackedCommands[j].id

\* a command object the invoker held on its redo stack was handed to
\* executeCommand again, and the history is full
C34_Witness ==
    /\ last.op = "executeCommand" /\ last.ok
    /\ last.args[2] /\ Top(undoStack).id = last.args[1]
    /\ Len(undoStack) = maxHistorySize

(***************************************************************************)
(* BookingContext: invariants                                              *)
(***************************************************************************)
\* C35: in Paid, Confirmed and Completed paidAmount >= totalAmount and a
\* transaction reference is set; in Draft and Pending paidAmount is 0 and
\* the transaction reference is null.
C35_PaymentFieldsFollowState ==
    /\ booking.state \in {Paid, Confirmed, Completed}
          => booking.paidAmount >= booking.totalAmount /\ booking.transactionId # Null
    /\ booking.state \in {Draft, Pending}
          => booking.paidAmount = 0 /\ booking.transactionId = Null

\* a confirmed booking that was paid more than its total
C35_Witness ==
    /\ booking.state = Confirmed
    /\ booking.paidAmount > booking.totalAmount /\ booking.totalAmount > 0

\* C36: the state-transition log is a chain: its first entry is
\* (Initial -> Draft), every later entry starts where the previous one
\* ended, and the last entry ends in the current state.
C36_TransitionLogIsChain ==
    LET log == booking.stateHistory
    IN  /\ Len(log) >= 1
        /\ log[1] = [fromState |-> "Initial", toState |-> Draft]
        /\ \A i \in 2 .. Len(log) : log[i].fromState = log[i - 1].toState
        /\ log[Len(log)].toState = booking.state

\* a booking that went from Draft to Cancelled through four transitions
C36_Witness ==
    /\ Len(booking.stateHistory) = 5
    /\ booking.state = Cancelled

\* C37: whenever completeBooking returns success = false, no seat of that
\* showtime is left in status SELECTED.
C37_FailedBookingReleasesSeats ==
    (last.op = "completeBooking" /\ ~bookingResult.success)
        => \A c \in GridCodes(Rows, SeatsPerRow) : LayoutStatus(last.args[1], c) # SELECTED

\* C38: a list returned by the proxy's getAvailableSeats, from the cache or
\* from the real service, holds exactly the seats whose status is AVAILABLE
\* in the real service at the time of the call.
C38_AvailableSeatsAreCurrent ==
    [][(last'.op = "Proxy.getAvailableSeats" /\ error' = Null)
          => returned' = {GetCode(seat) : seat \in {t \in FlatSeats(seatData', last'.args[1]) :
                                                       t.status = AVAILABLE}}]_vars

\* a list served from the cache, filled after a seat had been selected
\* through the proxy, that is neither empty nor the whole showtime
C38_Witness ==
    /\ last.op = "Proxy.getAvailableSeats" /\ error = Null
    /\ "seats-available-" \o ShowtimeId \in last.pre
    /\ \E seat \in FlatSeats(seatData, ShowtimeId) : seat.status = SELECTED
    /\ returned # {}

\* C39: if the update of a subscribed observer throws during notify, notify
\* itself does not throw, every other attached observer subscribed to the
\* event type is still called, and the event is recorded in the event log.
C39_ThrowingObserverIsolated ==
    [][(/\ last'.op = "Notifier.notify"
        /\ \E o \in last'.pre : UpdateCalls(o)' >= 1)
          => /\ last'.ok
             /\ \A o \in attachedObservers :
                   last'.args[1].eventType \in SubscribedEvents[o] => UpdateCalls(o)' = 1
             /\ eventLog'[Len(eventLog')] = last'.args[1]]_vars

(***************************************************************************)
(* Two histories on one registry                                           *)
(***************************************************************************)
SessionCalls == {"session.selectSeat", "session.deselectSeat", "session.undo",
                 "session.redo"}

\* C40: with two command histories on one seat registry, their calls run one
\* after the other, a call made through one history never changes the status
\* of a seat that is selected through the other history.
C40_OtherSessionSeatsUntouched ==
    [][last'.op \in SessionCalls
          => \A c \in DOMAIN seats :
                (selectedThrough[c] \notin {0, last'.args[1]})
                    => seats'[c].status = seats[c].status]_vars

====
